---- MODULE Spec2Model ----
(***************************************************************************)
(* ChapterClip: the term rewriting engine of src/search_replace_processor. *)
(* Text and patterns are sequences of one-character strings; offsets are   *)
(* Python's 0-based offsets, so text[start:end] is SubSeq(t, start+1, end).*)
(***************************************************************************)
EXTENDS Integers, Sequences, FiniteSets, TLC

VARIABLES
    pc,            \* position in apply_search_replace: "start", "collected", "resolved", "done"
    text,          \* argument text
    terms,         \* argument terms (sequence of rule records)
    replacements,  \* local list `replacements`, after the sort of line 194
    winning,       \* local list `winning`, in acceptance order (before line 205)
    result,        \* returned text
    given,         \* the arguments as the caller passed them to the current call
    calls,         \* the calls that have returned: arguments at return, and result
    handed,        \* the arguments of the re.compile calls of the current call, in order
    outcome,       \* how the current call ended: not yet, a return, or an exception
    file_path,     \* load_search_replace_terms: argument file_path
    epub_path,     \* load_search_replace_terms: argument epub_path (<<>>: None or "")
    document,      \* what is stored under file_path
    game_name,     \* load_search_replace_terms: local game_name
    loader_terms,  \* load_search_replace_terms: local terms
    validated_terms, \* load_search_replace_terms: the returned list
    enable_parallel_processing, \* apply_search_replace_to_epub: the setting read at line 251
    processable_items, \* the content of each processable item as line 279 captured it
    book,          \* the current content of each processable item (item.content)
    max_workers,   \* size of the thread pool
    work_queue,    \* the pool's queue: submitted items no worker has taken
    running,       \* per worker: the item it holds and where it is in process_item
    futures,       \* per item: "none", "pending", TRUE/FALSE once done, "yielded"
    started,       \* log of <<item, worker>>: who began process_item for which item
    set_calls,     \* log of the set_content calls: [item, content]
    processed_count, \* local processed_count
    chapters,      \* the book: per chapter its word count and whether its title is added
    start_chapter, \* extract_chapters_text: argument start_chapter
    max_count,     \* extract_chapters_text: argument max_count
    current_chapter, \* extract_chapters_text: local current_chapter
    total_count,   \* extract_chapters_text: local total_count
    included_chapters, \* extract_chapters_text: local included_chapters
    config,        \* the settings of config.yaml that the workflow reads
    screen,        \* the messages printed since the console was last cleared
    clipboard,     \* the copy_to_clipboard calls, each with the round it was made in
    dispatched,    \* run(): the menu choices handled so far, each with the handler called
    use_search_replace \* handle_extraction: the answer to the question of line 92

loaderVars == <<file_path, epub_path, document, game_name, loader_terms, validated_terms>>

epubVars == <<enable_parallel_processing, processable_items, book, max_workers,
              work_queue, running, futures, started, set_calls, processed_count>>

\* the variables of the callers of the engine
extractVars == <<chapters, start_chapter, max_count, current_chapter, total_count,
                 included_chapters>>

mainVars == <<config, screen, clipboard, dispatched, use_search_replace>>

appVars == <<epubVars, extractVars, mainVars>>

vars == <<pc, text, terms, replacements, winning, result, given, calls, handed,
          outcome, loaderVars, appVars>>

\* ------------------------------------------------------------------ bounds

MaxLen == 3

MaxTerms == 2

MaxCrLen == 4

MaxCalls == 3

MaxRxLen == 3

MaxRules == 2

MaxItems == 2

MaxWorkers == 2

MaxChapters == 3

MaxLimit == 3

MaxRounds == 2

\* --------------------------------------------------------- sequence helpers

Min(a, b) == IF a < b THEN a ELSE b

Range(s) == {s[i] : i \in 1..Len(s)}

\* s[a:b] of Python, with 0 <= a and b clipped to the length
Slice(s, a, b) == SubSeq(s, a + 1, Min(b, Len(s)))

RECURSIVE Concat(_)
Concat(ss) == IF ss = <<>> THEN <<>> ELSE Head(ss) \o Concat(Tail(ss))

\* sep.join(parts)
RECURSIVE Join(_, _)
Join(parts, sep) ==
    IF parts = <<>> THEN <<>>
    ELSE IF Len(parts) = 1 THEN parts[1]
    ELSE parts[1] \o sep \o Join(Tail(parts), sep)

\* s.split(c) for a one-character separator
RECURSIVE SplitFrom(_, _, _, _)
SplitFrom(s, c, i, cur) ==
    IF i > Len(s) THEN <<cur>>
    ELSE IF s[i] = c THEN <<cur>> \o SplitFrom(s, c, i + 1, <<>>)
    ELSE SplitFrom(s, c, i + 1, Append(cur, s[i]))

Split(s, c) == SplitFrom(s, c, 1, <<>>)

\* all sequences over S of length at most n
RECURSIVE SeqsUpTo(_, _)
SeqsUpTo(S, n) ==
    IF n = 0 THEN {<<>>}
    ELSE LET shorter == SeqsUpTo(S, n - 1)
         IN  shorter \cup {Append(s, x) : s \in {t \in shorter : Len(t) = n - 1}, x \in S}

\* ------------------------------------------------- characters (str, re)

LOWER == <<"a","b","c","d","e","f","g","h","i","j","k","l","m",
           "n","o","p","q","r","s","t","u","v","w","x","y","z">>

UPPER == <<"A","B","C","D","E","F","G","H","I","J","K","L","M",
           "N","O","P","Q","R","S","T","U","V","W","X","Y","Z">>

DIGITS == <<"0","1","2","3","4","5","6","7","8","9">>

\* str.lower() on one character
LowerChar(c) ==
    IF \E i \in 1..Len(UPPER) : UPPER[i] = c
    THEN LOWER[CHOOSE i \in 1..Len(UPPER) : UPPER[i] = c]
    ELSE c

\* str.lower()
StrLower(s) == [i \in 1..Len(s) |-> LowerChar(s[i])]

\* \d and \w of the pattern engine
IsDigit(c) == c \in Range(DIGITS)

IsWord(c) == c \in Range(LOWER) \cup Range(UPPER) \cup Range(DIGITS) \cup {"_"}

\* str.strip(): the whitespace characters
IsSpace(c) == c \in {" ", "\t", "\n", "\r"}

RECURSIVE LStrip(_)
LStrip(s) == IF s # <<>> /\ IsSpace(Head(s)) THEN LStrip(Tail(s)) ELSE s

RECURSIVE RStrip(_)
RStrip(s) ==
    IF s # <<>> /\ IsSpace(s[Len(s)]) THEN RStrip(SubSeq(s, 1, Len(s) - 1)) ELSE s

Strip(s) == RStrip(LStrip(s))

\* the characters re.escape puts a backslash before
EscapeSpecial ==
    {"(", ")", "[", "]", "{", "}", "?", "*", "+", "-", "|", "^", "$",
     "\\", ".", "&", "~", "#", " ", "\t", "\n", "\r"}

\* re.escape(k)
Escape(k) ==
    Concat([i \in 1..Len(k) |->
              IF k[i] \in EscapeSpecial THEN <<"\\", k[i]>> ELSE <<k[i]>>])

\* ----------------------------------------------------- the pattern engine
\* The subset of Python's re the engine is used with here: literal
\* characters, backslash escapes (\d, \b, escaped literals), groups ( ),
\* lookbehind (?<= ) and alternation |; no quantifiers, classes or anchors.

\* index of the ")" closing the group whose body starts at i (0: none)
RECURSIVE FindClose(_, _, _)
FindClose(p, i, depth) ==
    IF i > Len(p) THEN 0
    ELSE IF p[i] = "\\" THEN FindClose(p, i + 2, depth)
    ELSE IF p[i] = "(" THEN FindClose(p, i + 1, depth + 1)
    ELSE IF p[i] = ")"
         THEN IF depth = 0 THEN i ELSE FindClose(p, i + 1, depth - 1)
    ELSE FindClose(p, i + 1, depth)

\* the branches of p: p split at the "|" outside every group
RECURSIVE Branches(_, _, _, _)
Branches(p, i, depth, cur) ==
    IF i > Len(p) THEN <<cur>>
    ELSE IF p[i] = "\\"
         THEN Branches(p, i + 2, depth, cur \o SubSeq(p, i, Min(i + 1, Len(p))))
    ELSE IF p[i] = "|" /\ depth = 0
         THEN <<cur>> \o Branches(p, i + 1, 0, <<>>)
    ELSE Branches(p, i + 1,
                  depth + (IF p[i] = "(" THEN 1 ELSE IF p[i] = ")" THEN -1 ELSE 0),
                  Append(cur, p[i]))

IsLookbehindAt(p, i) ==
    /\ i + 3 <= Len(p)
    /\ SubSeq(p, i, i + 3) = <<"(", "?", "<", "=">>

\* \b at offset pos of t
AtBoundary(t, pos) ==
    LET before == pos > 0 /\ IsWord(t[pos])
        after  == pos < Len(t) /\ IsWord(t[pos + 1])
    IN  before # after

\* a pattern character against a text character, under re.IGNORECASE or not
CharEq(a, b, ignorecase) ==
    IF ignorecase THEN LowerChar(a) = LowerChar(b) ELSE a = b

\* MatchAlt / MatchSeq: the end offsets of the matches of a pattern that
\* start at pos, in the engine's order of preference (first branch first);
\* the first one is the match the engine reports.
RECURSIVE MatchAlt(_, _, _, _)
RECURSIVE MatchBranches(_, _, _, _)
RECURSIVE MatchSeq(_, _, _, _)
RECURSIVE MatchRestFrom(_, _, _, _)

MatchAlt(p, t, pos, ignorecase) ==
    MatchBranches(Branches(p, 1, 0, <<>>), t, pos, ignorecase)

MatchBranches(bs, t, pos, ignorecase) ==
    IF bs = <<>> THEN <<>>
    ELSE MatchSeq(Head(bs), t, pos, ignorecase)
            \o MatchBranches(Tail(bs), t, pos, ignorecase)

\* continue with `rest` from each of the offsets `ends`, in order
MatchRestFrom(rest, t, ends, ignorecase) ==
    IF ends = <<>> THEN <<>>
    ELSE MatchSeq(rest, t, Head(ends), ignorecase)
            \o MatchRestFrom(rest, t, Tail(ends), ignorecase)

MatchSeq(b, t, pos, ignorecase) ==
    IF b = <<>> THEN <<pos>>
    ELSE IF b[1] = "\\" /\ Len(b) >= 2 THEN
        LET rest == SubSeq(b, 3, Len(b)) IN
        IF b[2] = "d" THEN
            IF pos < Len(t) /\ IsDigit(t[pos + 1])
            THEN MatchSeq(rest, t, pos + 1, ignorecase) ELSE <<>>
        ELSE IF b[2] = "b" THEN
            IF AtBoundary(t, pos) THEN MatchSeq(rest, t, pos, ignorecase) ELSE <<>>
        ELSE
            IF pos < Len(t) /\ CharEq(b[2], t[pos + 1], ignorecase)
            THEN MatchSeq(rest, t, pos + 1, ignorecase) ELSE <<>>
    ELSE IF IsLookbehindAt(b, 1) THEN
        LET j     == FindClose(b, 5, 0)
            inner == SubSeq(b, 5, j - 1)
            rest  == SubSeq(b, j + 1, Len(b))
        IN  IF \E s \in 0..pos :
                 pos \in Range(MatchAlt(inner, t, s, ignorecase))
            THEN MatchSeq(rest, t, pos, ignorecase) ELSE <<>>
    ELSE IF b[1] = "(" THEN
        LET j     == FindClose(b, 2, 0)
            inner == SubSeq(b, 2, j - 1)
            rest  == SubSeq(b, j + 1, Len(b))
        IN  MatchRestFrom(rest, t, MatchAlt(inner, t, pos, ignorecase), ignorecase)
    ELSE
        IF pos < Len(t) /\ CharEq(b[1], t[pos + 1], ignorecase)
        THEN MatchSeq(Tail(b), t, pos + 1, ignorecase) ELSE <<>>

\* pattern.finditer(text): the matches [start, end], left to right, not
\* overlapping; after an empty match the engine looks again at the same
\* offset for a match that is not empty.
RECURSIVE FindIterFrom(_, _, _, _, _)
FindIterFrom(p, t, pos, mustAdvance, ignorecase) ==
    IF pos > Len(t) THEN <<>>
    ELSE LET all  == MatchAlt(p, t, pos, ignorecase)
             ends == IF mustAdvance THEN SelectSeq(all, LAMBDA e : e # pos) ELSE all
         IN  IF ends = <<>> THEN FindIterFrom(p, t, pos + 1, FALSE, ignorecase)
             ELSE LET e == Head(ends)
                  IN  <<[start |-> pos, end |-> e]>>
                        \o (IF e = pos THEN FindIterFrom(p, t, pos, TRUE, ignorecase)
                            ELSE FindIterFrom(p, t, e, FALSE, ignorecase))

FindIter(p, t, ignorecase) == FindIterFrom(p, t, 0, FALSE, ignorecase)

\* ------------------------------------------------------------ re.compile

\* str(n) for an offset
PosStr(n) ==
    IF n < 10 THEN <<DIGITS[n + 1]>>
    ELSE <<DIGITS[(n \div 10) + 1], DIGITS[(n % 10) + 1]>>

\* " at position n", the end of a parser message
AtPosition(n) == <<" ", "a", "t", " ", "p", "o", "s", "i", "t", "i", "o", "n", " ">> \o PosStr(n)

\* the parser's error for p, scanning from index i with the indexes `opens`
\* of the groups still open; <<>> when p parses
RECURSIVE ParseError(_, _, _)
ParseError(p, i, opens) ==
    IF i > Len(p) THEN
        IF opens = <<>> THEN <<>>
        ELSE <<"m", "i", "s", "s", "i", "n", "g", " ", ")", ",", " ", "u", "n", "t", "e", "r", "m", "i", "n", "a", "t", "e", "d", " ", "s", "u", "b", "p", "a", "t", "t", "e", "r", "n">>
                \o AtPosition(opens[Len(opens)] - 1)
    ELSE IF p[i] = "\\" THEN
        IF i = Len(p)
        THEN <<"b", "a", "d", " ", "e", "s", "c", "a", "p", "e", " ", "(", "e", "n", "d", " ", "o", "f", " ", "p", "a", "t", "t", "e", "r", "n", ")">> \o AtPosition(i - 1)
        ELSE ParseError(p, i + 2, opens)
    ELSE IF p[i] = "(" THEN ParseError(p, i + 1, Append(opens, i))
    ELSE IF p[i] = ")" THEN
        IF opens = <<>>
        THEN <<"u", "n", "b", "a", "l", "a", "n", "c", "e", "d", " ", "p", "a", "r", "e", "n", "t", "h", "e", "s", "i", "s">> \o AtPosition(i - 1)
        ELSE ParseError(p, i + 1, SubSeq(opens, 1, Len(opens) - 1))
    ELSE ParseError(p, i + 1, opens)

\* the widths of the strings a pattern can match
RECURSIVE WidthsAlt(_)
RECURSIVE WidthsSeq(_)
WidthsAlt(p) ==
    LET bs == Branches(p, 1, 0, <<>>)
    IN  UNION {WidthsSeq(bs[k]) : k \in 1..Len(bs)}

WidthsSeq(b) ==
    IF b = <<>> THEN {0}
    ELSE IF b[1] = "\\" /\ Len(b) >= 2 THEN
        {(IF b[2] = "b" THEN 0 ELSE 1) + w : w \in WidthsSeq(SubSeq(b, 3, Len(b)))}
    ELSE IF IsLookbehindAt(b, 1) THEN
        WidthsSeq(SubSeq(b, FindClose(b, 5, 0) + 1, Len(b)))
    ELSE IF b[1] = "(" THEN
        LET j == FindClose(b, 2, 0)
        IN  {v + w : v \in WidthsAlt(SubSeq(b, 2, j - 1)),
                     w \in WidthsSeq(SubSeq(b, j + 1, Len(b)))}
    ELSE {1 + w : w \in WidthsSeq(Tail(b))}

\* whether a pattern that parses has a lookbehind of more than one width
RECURSIVE VariableLookbehind(_, _)
VariableLookbehind(p, i) ==
    IF i > Len(p) THEN FALSE
    ELSE IF p[i] = "\\" THEN VariableLookbehind(p, i + 2)
    ELSE IF IsLookbehindAt(p, i)
            /\ Cardinality(WidthsAlt(SubSeq(p, i + 4, FindClose(p, i + 4, 0) - 1))) # 1
         THEN TRUE
    ELSE VariableLookbehind(p, i + 1)

\* str(e) of the re.error that re.compile(p) raises; <<>> when it compiles
CompileError(p) ==
    IF ParseError(p, 1, <<>>) # <<>> THEN ParseError(p, 1, <<>>)
    ELSE IF VariableLookbehind(p, 1)
         THEN <<"l", "o", "o", "k", "-", "b", "e", "h", "i", "n", "d", " ", "r", "e", "q", "u", "i", "r", "e", "s", " ", "f", "i", "x", "e", "d", "-", "w", "i", "d", "t", "h", " ", "p", "a", "t", "t", "e", "r", "n">>
    ELSE <<>>

\* ------------------------------------------- fix_variable_lookbehind

\* re.search(r'\(\?<=([^)]*)\)', pattern): where the match starts, 0 if none
LookbehindStart(p) ==
    LET C == {i \in 1..Len(p) :
                 IsLookbehindAt(p, i) /\ \E j \in (i + 4)..Len(p) : p[j] = ")"}
    IN  IF C = {} THEN 0 ELSE CHOOSE i \in C : \A k \in C : i <= k

\* ... and the index of the ")" that ends it: the first one after "(?<="
LookbehindClose(p, i) ==
    CHOOSE j \in (i + 4)..Len(p) :
        p[j] = ")" /\ \A k \in (i + 4)..(j - 1) : p[k] # ")"

\* variant: only the first of the new patterns is returned
fix_first_alternative_only(pattern) ==
    LET i == LookbehindStart(pattern) IN
    IF i = 0 THEN pattern
    ELSE
      LET j          == LookbehindClose(pattern, i)
          lb_content == SubSeq(pattern, i + 4, j - 1)
      IN
      IF "|" \notin Range(lb_content) THEN pattern
      ELSE
        LET alt        == Strip(Split(lb_content, "|")[1])
            match_part == SubSeq(pattern, j + 1, Len(pattern))
        IN  IF alt = <<"\\", "b">>
            THEN <<"\\", "b">> \o match_part
            ELSE <<"(", "?", "<", "=">> \o alt \o <<")">> \o match_part

fix_variable_lookbehind(pattern) ==
    LET i == LookbehindStart(pattern) IN
    IF i = 0 THEN pattern
    ELSE
      LET j          == LookbehindClose(pattern, i)
          lb_content == SubSeq(pattern, i + 4, j - 1)
      IN
      IF "|" \notin Range(lb_content) THEN pattern
      ELSE
        LET parts        == Split(lb_content, "|")
            alts         == [k \in 1..Len(parts) |-> Strip(parts[k])]
            match_part   == SubSeq(pattern, j + 1, Len(pattern))
            new_patterns ==
                [k \in 1..Len(alts) |->
                    IF alts[k] = <<"\\", "b">>
                    THEN <<"\\", "b">> \o match_part
                    ELSE <<"(", "?", "<", "=">> \o alts[k] \o <<")">> \o match_part]
        IN  Join(new_patterns, <<"|">>)

\* ---------------------------------------------------- apply_search_replace

\* term.get('wholeWord', False)
WholeWord(term) == IF "wholeWord" \in DOMAIN term THEN term.wholeWord ELSE FALSE

\* a dict as the sequence of its items in insertion order; d[k] = v
DictSet(d, k, v) ==
    IF \E i \in 1..Len(d) : d[i].key = k
    THEN [i \in 1..Len(d) |-> IF d[i].key = k THEN [key |-> k, repl |-> v] ELSE d[i]]
    ELSE Append(d, [key |-> k, repl |-> v])

DictHas(d, k) == \E i \in 1..Len(d) : d[i].key = k

DictGet(d, k) == d[CHOOSE i \in 1..Len(d) : d[i].key = k].repl

\* variant: the key is never case-folded
TermKeyNoFold(term) == term.original

\* the key a literal rule is filed under
TermKey(term) ==
    IF term.caseSensitive THEN term.original ELSE StrLower(term.original)

\* one of simple_cs_partial, simple_cs_whole, simple_ci_partial, simple_ci_whole
\* after the categorising loop
RECURSIVE SimpleMap(_, _, _, _)
SimpleMap(ts, cs, whole, d) ==
    IF ts = <<>> THEN d
    ELSE LET term == Head(ts) IN
         IF ~term.isRegex /\ term.caseSensitive = cs /\ WholeWord(term) = whole
         THEN SimpleMap(Tail(ts), cs, whole, DictSet(d, TermKey(term), term.replacement))
         ELSE SimpleMap(Tail(ts), cs, whole, d)

\* regex_terms after the categorising loop
RECURSIVE RegexTerms(_)
RegexTerms(ts) ==
    IF ts = <<>> THEN <<>>
    ELSE LET term == Head(ts) IN
         (IF term.isRegex
          THEN <<[pattern |-> fix_variable_lookbehind(term.original),
                  ignorecase |-> ~term.caseSensitive,
                  is_simple |-> FALSE, case_sensitive |-> term.caseSensitive,
                  replacement_map |-> <<>>, replacement |-> term.replacement]>>
          ELSE <<>>) \o RegexTerms(Tail(ts))

\* sorted(map_dict.keys(), key=len, reverse=True): stable, longest first
RECURSIVE InsertKey(_, _)
InsertKey(k, s) ==
    IF s = <<>> THEN <<k>>
    ELSE IF Len(k) > Len(Head(s)) THEN <<k>> \o s
    ELSE <<Head(s)>> \o InsertKey(k, Tail(s))

\* variant: the keys in insertion order, not sorted
KeysUnsorted(ks) == ks

RECURSIVE SortedKeys(_)
SortedKeys(ks) ==
    IF ks = <<>> THEN <<>>
    ELSE InsertKey(ks[Len(ks)], SortedKeys(SubSeq(ks, 1, Len(ks) - 1)))

\* the alternative of the combined pattern for one key
KeyPattern(k, whole_word) ==
    IF whole_word THEN <<"\\", "b">> \o Escape(k) \o <<"\\", "b">> ELSE Escape(k)

\* add_simple_group: what it appends to compiled_terms
add_simple_group(map_dict, ignorecase, whole_word, case_sensitive) ==
    IF map_dict = <<>> THEN <<>>
    ELSE LET sorted_keys == SortedKeys([i \in 1..Len(map_dict) |-> map_dict[i].key])
             patterns    == [i \in 1..Len(sorted_keys) |->
                                KeyPattern(sorted_keys[i], whole_word)]
         IN  <<[pattern |-> Join(patterns, <<"|">>),
                ignorecase |-> ignorecase,
                is_simple |-> TRUE, case_sensitive |-> case_sensitive,
                replacement_map |-> map_dict, replacement |-> <<>>]>>

\* variant: the literal groups before the pattern rules, the
\* case-insensitive groups first
CompiledTermsGroupsFirst(ts) ==
    add_simple_group(SimpleMap(ts, FALSE, TRUE, <<>>), TRUE, TRUE, FALSE)
        \o add_simple_group(SimpleMap(ts, FALSE, FALSE, <<>>), TRUE, FALSE, FALSE)
        \o add_simple_group(SimpleMap(ts, TRUE, TRUE, <<>>), FALSE, TRUE, TRUE)
        \o add_simple_group(SimpleMap(ts, TRUE, FALSE, <<>>), FALSE, FALSE, TRUE)
        \o RegexTerms(ts)

\* compiled_terms after the four add_simple_group calls
CompiledTerms(ts) ==
    RegexTerms(ts)
        \o add_simple_group(SimpleMap(ts, TRUE, FALSE, <<>>), FALSE, FALSE, TRUE)
        \o add_simple_group(SimpleMap(ts, TRUE, TRUE, <<>>), FALSE, TRUE, TRUE)
        \o add_simple_group(SimpleMap(ts, FALSE, FALSE, <<>>), TRUE, FALSE, FALSE)
        \o add_simple_group(SimpleMap(ts, FALSE, TRUE, <<>>), TRUE, TRUE, FALSE)

\* variant: zero-length matches are not skipped
RECURSIVE MatchesKeepEmpty(_, _, _)
MatchesKeepEmpty(comp, t, ms) ==
    IF ms = <<>> THEN <<>>
    ELSE LET m            == Head(ms)
             matched_text == Slice(t, m.start, m.end)
             key          == IF comp.case_sensitive THEN matched_text
                             ELSE StrLower(matched_text)
             more         == MatchesKeepEmpty(comp, t, Tail(ms))
         IN  IF comp.is_simple
             THEN IF DictHas(comp.replacement_map, key)
                  THEN <<[start |-> m.start, end |-> m.end,
                          replacement |-> DictGet(comp.replacement_map, key)]>> \o more
                  ELSE more
             ELSE <<[start |-> m.start, end |-> m.end,
                     replacement |-> comp.replacement]>> \o more

\* the replacements one compiled term adds, from its matches ms
RECURSIVE MatchesToReplacements(_, _, _)
MatchesToReplacements(comp, t, ms) ==
    IF ms = <<>> THEN <<>>
    ELSE LET m            == Head(ms)
             matched_text == Slice(t, m.start, m.end)
             key          == IF comp.case_sensitive THEN matched_text
                             ELSE StrLower(matched_text)
             more         == MatchesToReplacements(comp, t, Tail(ms))
         IN  IF m.start = m.end THEN more
             ELSE IF comp.is_simple
                  THEN IF DictHas(comp.replacement_map, key)
                       THEN <<[start |-> m.start, end |-> m.end,
                               replacement |-> DictGet(comp.replacement_map, key)]>> \o more
                       ELSE more
             ELSE <<[start |-> m.start, end |-> m.end,
                     replacement |-> comp.replacement]>> \o more

\* `replacements` after the loop over compiled_terms (before the sort)
RECURSIVE FindAllMatches(_, _)
FindAllMatches(comps, t) ==
    IF comps = <<>> THEN <<>>
    ELSE MatchesToReplacements(Head(comps), t,
                               FindIter(Head(comps).pattern, t, Head(comps).ignorecase))
            \o FindAllMatches(Tail(comps), t)

\* variant: the longest match first, whatever its start
KeyLessLongestFirst(a, b) ==
    \/ a.end - a.start > b.end - b.start
    \/ (a.end - a.start = b.end - b.start /\ a.start < b.start)

\* variant: the list is left in the order the matchers produced it
KeyLessUnsorted(a, b) == FALSE

\* variant: the key without its second component
KeyLessStartOnly(a, b) == a.start < b.start

\* the sort key of line 194: (start, -end)
KeyLess(a, b) == a.start < b.start \/ (a.start = b.start /\ a.end > b.end)

\* replacements.sort(key=...): stable
RECURSIVE InsertReplacement(_, _)
InsertReplacement(r, s) ==
    IF s = <<>> THEN <<r>>
    ELSE IF KeyLess(r, Head(s)) THEN <<r>> \o s
    ELSE <<Head(s)>> \o InsertReplacement(r, Tail(s))

RECURSIVE SortReplacements(_)
SortReplacements(rs) ==
    IF rs = <<>> THEN <<>>
    ELSE InsertReplacement(rs[Len(rs)], SortReplacements(SubSeq(rs, 1, Len(rs) - 1)))

\* variant: the test on the end of the match instead of its start
AcceptsByEnd(rep, last_end) == rep.end >= last_end

\* variant: a match that starts where the last accepted one ends is refused
AcceptsStrictlyAfter(rep, last_end) == rep.start > last_end

\* whether a replacement is accepted, given last_end
Accepts(rep, last_end) == rep.start >= last_end

\* the loop of lines 199-202
RECURSIVE SelectFrom(_, _)
SelectFrom(rs, last_end) ==
    IF rs = <<>> THEN <<>>
    ELSE IF Accepts(Head(rs), last_end)
         THEN <<Head(rs)>> \o SelectFrom(Tail(rs), Head(rs).end)
         ELSE SelectFrom(Tail(rs), last_end)

SelectNonOverlapping(rs) == SelectFrom(rs, -1)

\* winning.sort(key=start, reverse=True): stable, highest start first
RECURSIVE InsertByStartDesc(_, _)
RECURSIVE InsertByStartAsc(_, _)
RECURSIVE SortByStartAsc(_)
InsertByStartDesc(r, s) ==
    IF s = <<>> THEN <<r>>
    ELSE IF r.start > Head(s).start THEN <<r>> \o s
    ELSE <<Head(s)>> \o InsertByStartDesc(r, Tail(s))

\* variant: the sort without reverse=True
InsertByStartAsc(r, s) ==
    IF s = <<>> THEN <<r>>
    ELSE IF r.start < Head(s).start THEN <<r>> \o s
    ELSE <<Head(s)>> \o InsertByStartAsc(r, Tail(s))

SortByStartAsc(ws) ==
    IF ws = <<>> THEN <<>>
    ELSE InsertByStartAsc(ws[Len(ws)], SortByStartAsc(SubSeq(ws, 1, Len(ws) - 1)))

RECURSIVE SortByStartDesc(_)
SortByStartDesc(ws) ==
    IF ws = <<>> THEN <<>>
    ELSE InsertByStartDesc(ws[Len(ws)], SortByStartDesc(SubSeq(ws, 1, Len(ws) - 1)))

\* result[:start] + repl + result[end:]
Splice(res, rep) ==
    Slice(res, 0, rep.start) \o rep.replacement \o Slice(res, rep.end, Len(res))

\* the loop of lines 209-213
RECURSIVE ApplyAll(_, _)
ApplyAll(res, ws) ==
    IF ws = <<>> THEN res ELSE ApplyAll(Splice(res, Head(ws)), Tail(ws))

\* the returned text
apply_search_replace(t, ts) ==
    ApplyAll(t, SortByStartDesc(SelectNonOverlapping(
                   SortReplacements(FindAllMatches(CompiledTerms(ts), t)))))

\* ----------------------------------------------- load_search_replace_terms

\* whether s ends with suffix
EndsWith(s, suffix) ==
    Len(s) >= Len(suffix) /\ SubSeq(s, Len(s) - Len(suffix) + 1, Len(s)) = suffix

\* s.replace(old, new) for a non-empty old: left to right, not overlapping
RECURSIVE Replace(_, _, _)
Replace(s, old, new) ==
    IF Len(s) < Len(old) THEN s
    ELSE IF SubSeq(s, 1, Len(old)) = old
         THEN new \o Replace(SubSeq(s, Len(old) + 1, Len(s)), old, new)
    ELSE <<Head(s)>> \o Replace(Tail(s), old, new)

\* os.path.basename(path): what follows the last "/"
RECURSIVE Basename(_)
Basename(path) ==
    IF "/" \notin Range(path) THEN path ELSE Basename(Tail(path))

\* the name of a rule's key, as text
Chars(k) ==
    CASE k = "original"      -> <<"o", "r", "i", "g", "i", "n", "a", "l">>
      [] k = "replacement"   -> <<"r", "e", "p", "l", "a", "c", "e", "m", "e", "n", "t">>
      [] k = "caseSensitive" -> <<"c", "a", "s", "e", "S", "e", "n", "s", "i", "t", "i", "v", "e">>
      [] k = "isRegex"       -> <<"i", "s", "R", "e", "g", "e", "x">>
      [] k = "wholeWord"     -> <<"w", "h", "o", "l", "e", "W", "o", "r", "d">>
      [] k = "id"            -> <<"i", "d">>

\* a JSON value of a rule: its type, and the text or boolean it holds
JStr(str) == [type |-> "str", str |-> str, bool |-> FALSE]

JBool(bool) == [type |-> "bool", str |-> <<>>, bool |-> bool]

JNum == [type |-> "num", str |-> <<>>, bool |-> FALSE]

\* validate_json_file: the message of its ValidationError; <<>> when it passes
ValidateJsonFileError(path, doc) ==
    IF doc.type = "missing"
    THEN <<"F", "i", "l", "e", " ", "d", "o", "e", "s", " ", "n", "o", "t", " ", "e", "x", "i", "s", "t", ":", " ">> \o path
    ELSE IF ~EndsWith(StrLower(path), <<".", "j", "s", "o", "n">>)
    THEN <<"F", "i", "l", "e", " ", "m", "u", "s", "t", " ", "b", "e", " ", "a", " ", "J", "S", "O", "N", " ", "f", "i", "l", "e", " ", "(", ".", "j", "s", "o", "n", ")">>
    ELSE <<>>

required_keys == <<"original", "replacement", "caseSensitive", "isRegex">>

\* validate_search_replace_term: the message of its ValidationError; <<>>
\* when the term passes and is returned
ValidateTermError(term) ==
    LET missing == {i \in 1..Len(required_keys) : required_keys[i] \notin DOMAIN term} IN
    IF missing # {}
    THEN <<"M", "i", "s", "s", "i", "n", "g", " ", "r", "e", "q", "u", "i", "r", "e", "d", " ", "k", "e", "y", ":", " ">>
            \o Chars(required_keys[CHOOSE i \in missing : \A j \in missing : i <= j])
    ELSE IF "id" \in DOMAIN term /\ term.id.type # "str"
    THEN <<"K", "e", "y", " ", "'", "i", "d", "'", " ", "m", "u", "s", "t", " ", "b", "e", " ", "a", " ", "s", "t", "r", "i", "n", "g">>
    ELSE IF term.original.type # "str"
    THEN <<"K", "e", "y", " ", "'", "o", "r", "i", "g", "i", "n", "a", "l", "'", " ", "m", "u", "s", "t", " ", "b", "e", " ", "a", " ", "s", "t", "r", "i", "n", "g">>
    ELSE IF term.replacement.type # "str"
    THEN <<"K", "e", "y", " ", "'", "r", "e", "p", "l", "a", "c", "e", "m", "e", "n", "t", "'", " ", "m", "u", "s", "t", " ", "b", "e", " ", "a", " ", "s", "t", "r", "i", "n", "g">>
    ELSE IF term.caseSensitive.type # "bool"
    THEN <<"K", "e", "y", " ", "'", "c", "a", "s", "e", "S", "e", "n", "s", "i", "t", "i", "v", "e", "'", " ", "m", "u", "s", "t", " ", "b", "e", " ", "a", " ", "b", "o", "o", "l", "e", "a", "n">>
    ELSE IF term.isRegex.type # "bool"
    THEN <<"K", "e", "y", " ", "'", "i", "s", "R", "e", "g", "e", "x", "'", " ", "m", "u", "s", "t", " ", "b", "e", " ", "a", " ", "b", "o", "o", "l", "e", "a", "n">>
    ELSE IF "wholeWord" \in DOMAIN term /\ term.wholeWord.type # "bool"
    THEN <<"K", "e", "y", " ", "'", "w", "h", "o", "l", "e", "W", "o", "r", "d", "'", " ", "m", "u", "s", "t", " ", "b", "e", " ", "a", " ", "b", "o", "o", "l", "e", "a", "n">>
    ELSE <<>>

\* lines 78-81: the key the rules are selected by
GameName(path, epub) ==
    IF epub # <<>>
    THEN Replace(StrLower(Replace(Basename(epub), <<".", "e", "p", "u", "b">>, <<>>)), <<"_">>, <<"-">>)
    ELSE Replace(Basename(path), <<"-", "t", "e", "r", "m", "s", ".", "j", "s", "o", "n">>, <<>>)

\* data['settings'].get(game_name, {}).get('isDisabled', False)
IsDisabled(settings, game) ==
    \E i \in 1..Len(settings) : settings[i].key = game /\ settings[i].isDisabled = "true"

\* game_name in data['terms'], and data['terms'][game_name]
HasTerms(doc, game) == \E i \in 1..Len(doc.terms) : doc.terms[i].key = game

TermsOf(doc, game) == doc.terms[CHOOSE i \in 1..Len(doc.terms) : doc.terms[i].key = game].value

\* variant: the document's settings are not consulted
FormatErrorIgnoringSettings(doc, game) ==
    IF doc.type = "list" THEN <<>>
    ELSE IF doc.type = "dict" THEN
        IF ~({"formatVersion", "settings", "terms"} \subseteq doc.keys)
        THEN <<"N", "e", "w", " ", "f", "o", "r", "m", "a", "t", " ", "J", "S", "O", "N", " ", "m", "u", "s", "t", " ", "c", "o", "n", "t", "a", "i", "n", " ", "'", "f", "o", "r", "m", "a", "t", "V", "e", "r", "s", "i", "o", "n", "'", ",", " ", "'", "s", "e", "t", "t", "i", "n", "g", "s", "'", ",", " ", "a", "n", "d", " ", "'", "t", "e", "r", "m", "s", "'", ".">>
        ELSE IF ~HasTerms(doc, game)
        THEN <<"N", "o", " ", "t", "e", "r", "m", "s", " ", "f", "o", "u", "n", "d", " ", "f", "o", "r", " ", "g", "a", "m", "e", " ", "'">> \o game \o <<"'", ".">>
        ELSE IF ~TermsOf(doc, game).is_list
        THEN <<"T", "e", "r", "m", "s", " ", "f", "o", "r", " ", "g", "a", "m", "e", " ", "'">> \o game \o <<"'", " ", "m", "u", "s", "t", " ", "b", "e", " ", "a", "n", " ", "a", "r", "r", "a", "y", ".">>
        ELSE <<>>
    ELSE <<"J", "S", "O", "N", " ", "m", "u", "s", "t", " ", "b", "e", " ", "a", "n", " ", "a", "r", "r", "a", "y", " ", "(", "o", "l", "d", " ", "f", "o", "r", "m", "a", "t", ")", " ", "o", "r", " ", "o", "b", "j", "e", "c", "t", " ", "(", "n", "e", "w", " ", "f", "o", "r", "m", "a", "t", ")", ".">>

\* lines 71-90: the message of the SearchReplaceError raised there; <<>>
\* when `terms` is assigned
FormatError(doc, game) ==
    IF doc.type = "list" THEN <<>>
    ELSE IF doc.type = "dict" THEN
        IF ~({"formatVersion", "settings", "terms"} \subseteq doc.keys)
        THEN <<"N", "e", "w", " ", "f", "o", "r", "m", "a", "t", " ", "J", "S", "O", "N", " ", "m", "u", "s", "t", " ", "c", "o", "n", "t", "a", "i", "n", " ", "'", "f", "o", "r", "m", "a", "t", "V", "e", "r", "s", "i", "o", "n", "'", ",", " ", "'", "s", "e", "t", "t", "i", "n", "g", "s", "'", ",", " ", "a", "n", "d", " ", "'", "t", "e", "r", "m", "s", "'", ".">>
        ELSE IF ~HasTerms(doc, game)
        THEN <<"N", "o", " ", "t", "e", "r", "m", "s", " ", "f", "o", "u", "n", "d", " ", "f", "o", "r", " ", "g", "a", "m", "e", " ", "'">> \o game \o <<"'", ".">>
        ELSE IF IsDisabled(doc.settings, game)
        THEN <<"G", "a", "m", "e", " ", "'">> \o game \o <<"'", " ", "i", "s", " ", "d", "i", "s", "a", "b", "l", "e", "d", ".">>
        ELSE IF ~TermsOf(doc, game).is_list
        THEN <<"T", "e", "r", "m", "s", " ", "f", "o", "r", " ", "g", "a", "m", "e", " ", "'">> \o game \o <<"'", " ", "m", "u", "s", "t", " ", "b", "e", " ", "a", "n", " ", "a", "r", "r", "a", "y", ".">>
        ELSE <<>>
    ELSE <<"J", "S", "O", "N", " ", "m", "u", "s", "t", " ", "b", "e", " ", "a", "n", " ", "a", "r", "r", "a", "y", " ", "(", "o", "l", "d", " ", "f", "o", "r", "m", "a", "t", ")", " ", "o", "r", " ", "o", "b", "j", "e", "c", "t", " ", "(", "n", "e", "w", " ", "f", "o", "r", "m", "a", "t", ")", ".">>

\* the local `terms` after lines 71-90
SelectedTerms(doc, game) ==
    IF doc.type = "list" THEN doc.items ELSE TermsOf(doc, game).items

\* "Error loading search-replace terms: " and "Invalid JSON format: "
ErrorLoading == <<"E", "r", "r", "o", "r", " ", "l", "o", "a", "d", "i", "n", "g", " ", "s", "e", "a", "r", "c", "h", "-", "r", "e", "p", "l", "a", "c", "e", " ", "t", "e", "r", "m", "s", ":", " ">>

InvalidJson == <<"I", "n", "v", "a", "l", "i", "d", " ", "J", "S", "O", "N", " ", "f", "o", "r", "m", "a", "t", ":", " ">>

\* str(e) of the JSONDecodeError for a file that holds the text "x"
ExpectingValue == <<"E", "x", "p", "e", "c", "t", "i", "n", "g", " ", "v", "a", "l", "u", "e", ":", " ", "l", "i", "n", "e", " ", "1", " ", "c", "o", "l", "u", "m", "n", " ", "1", " ", "(", "c", "h", "a", "r", " ", "0", ")">>

\* lines 66-90 and their handlers: str(e) of the SearchReplaceError that
\* reaches the caller; <<>> when `terms` is assigned
SelectError(path, epub, doc) ==
    IF ValidateJsonFileError(path, doc) # <<>>
    THEN ErrorLoading \o ValidateJsonFileError(path, doc)
    ELSE IF doc.type = "garbage" THEN InvalidJson \o ExpectingValue
    ELSE IF FormatError(doc, GameName(path, epub)) # <<>>
    THEN ErrorLoading \o FormatError(doc, GameName(path, epub))
    ELSE <<>>

\* variant: only the first rule is validated
FirstInvalidHeadOnly(ts) ==
    IF ts # <<>> /\ ValidateTermError(ts[1]) # <<>> THEN 1 ELSE 0

\* the loop of lines 93-95: the first term that does not validate (0: none)
FirstInvalid(ts) ==
    LET bad == {i \in 1..Len(ts) : ValidateTermError(ts[i]) # <<>>}
    IN  IF bad = {} THEN 0 ELSE CHOOSE i \in bad : \A k \in bad : i <= k

\* ------------------------------------------------------------ the inputs

\* the characters texts are drawn from: two letters, a capital and a
\* character that is not a word character
Alphabet == {"c", "r", "C", " "}

Texts == SeqsUpTo(Alphabet, MaxLen)

\* the same with a digit, for the lookbehind pattern
CrAlphabet == {"c", "r", "C", "1", " "}

CrTexts == SeqsUpTo(CrAlphabet, MaxCrLen)

\* the pattern of the end-to-end scenario: (?<=\d|\b)(cr)\b
CrPattern == <<"(", "?", "<", "=", "\\", "d", "|", "\\", "b", ")", "(", "c", "r", ")", "\\", "b">>

Credits == <<"c", "r", "e", "d", "i", "t", "s">>

\* literal rule, with the optional key wholeWord
Lit(orig, repl, cs, whole) ==
    [original |-> orig, replacement |-> repl, caseSensitive |-> cs,
     isRegex |-> FALSE, wholeWord |-> whole]

\* literal rule without the optional key wholeWord
LitNoWhole(orig, repl, cs) ==
    [original |-> orig, replacement |-> repl, caseSensitive |-> cs, isRegex |-> FALSE]

Rx(orig, repl, cs) ==
    [original |-> orig, replacement |-> repl, caseSensitive |-> cs,
     isRegex |-> TRUE, wholeWord |-> FALSE]

\* the rules the rule sequences are drawn from: the two literals of a
\* prefix pair (one without the optional key), the same literal in another
\* case mode with a capital and an empty replacement, a whole-word literal
\* that begins with a non-word character, a whole-word literal that does
\* not, and the lookbehind pattern
RulePool ==
    { LitNoWhole(<<"c">>, <<"X">>, TRUE),
      Lit(<<"c", "r">>, <<"Y", "Y">>, TRUE, FALSE),
      Lit(<<"C", "r">>, <<>>, FALSE, FALSE),
      Lit(<<" ", "c">>, <<"V">>, TRUE, TRUE),
      Lit(<<"c">>, <<"U">>, FALSE, TRUE),
      Rx(CrPattern, Credits, TRUE) }

TermSeqs == SeqsUpTo(RulePool, MaxTerms)

\* the rule sequences of the end-to-end scenario, in both case modes
CrTermSeqs == {<<Rx(CrPattern, Credits, TRUE)>>, <<Rx(CrPattern, Credits, FALSE)>>}

\* the worked examples of the specification, as <<text, terms>>
Scenarios ==
    { <<<<"T", "h", "e", " ", "c", "r", " ", "e", "a", "r", "n", "e", "d", " ", "w", "a", "s", " ", "1", "0", " ", "c", "r", ".">>,
        <<Rx(CrPattern, Credits, TRUE)>>>>,
      <<<<"c", "a", "t", "s">>,
        <<Lit(<<"c", "a", "t">>, <<"X">>, TRUE, FALSE), Lit(<<"c", "a", "t", "s">>, <<"Y">>, TRUE, FALSE)>>>>,
      <<<<"C", "A", "T", "S", " ", "c", "a", "t", "s">>,
        <<Lit(<<"c", "a", "t">>, <<"X">>, FALSE, FALSE), Lit(<<"C", "a", "t", "s">>, <<"Y">>, FALSE, FALSE)>>>>,
      <<<<"a", " ", "c", "a", "t", " ", "s", "a", "t">>,
        <<Lit(<<"c", "a", "t">>, <<"X">>, TRUE, TRUE)>>>>,
      <<<<"c", "a", "t", "s">>,
        <<Lit(<<"c", "a", "t">>, <<"X">>, TRUE, TRUE)>>>>,
      <<<<"a", "b", "c", "d", "e", "f", "g", "h">>,
        <<Lit(<<"c", "d", "e", "f", "g", "h">>, <<"L">>, FALSE, FALSE), Lit(<<"a", "b", "c", "d", "e">>, <<"E">>, TRUE, FALSE)>>>>,
      <<<<"c", "a", "t", " ", "C", "A", "T", " ", "C", "a", "t">>,
        <<Lit(<<"C", "a", "t">>, <<"D", "o", "g">>, TRUE, FALSE)>>>>,
      <<<<"c", "a", "t", " ", "C", "A", "T", " ", "C", "a", "t">>,
        <<Lit(<<"C", "a", "t">>, <<"D", "o", "g">>, FALSE, FALSE)>>>>,
      <<<<"c", "r">>,
        <<Lit(<<>>, <<"X">>, TRUE, FALSE)>>>>,
      <<<<"c", " ", "r">>,
        <<Lit(<<>>, <<"X">>, FALSE, TRUE), Lit(<<"C">>, <<"Z">>, TRUE, FALSE)>>>>,
      <<<<"c", "r">>,
        <<Lit(<<>>, <<"X">>, TRUE, FALSE), Lit(<<"r">>, <<"Z">>, TRUE, FALSE)>>>>,
      <<<<"c", "c", "r">>,
        <<Rx(<<"c", "c">>, <<"W">>, TRUE), Lit(<<"c", "r">>, <<"Y", "Y">>, TRUE, FALSE),
          Lit(<<"r">>, <<"Z">>, TRUE, FALSE)>>>>,
      <<<<"c">>,
        <<Rx(<<"c">>, <<"Z">>, TRUE), Rx(<<"c">>, <<"X">>, TRUE)>>>>,
      <<<<"c", " ", "r">>,
        <<Lit(<<"c">>, <<"4">>, FALSE, TRUE), Lit(<<"c">>, <<"3">>, FALSE, FALSE),
          Lit(<<"c">>, <<"2">>, TRUE, TRUE), Lit(<<"c">>, <<"1">>, TRUE, FALSE),
          Rx(<<"c">>, <<"0">>, FALSE)>>>> }

\* the rules of permuted rule sequences: two patterns that match the same
\* spans, a longer pattern, two literals filed under the same key of the
\* same group, and a longer literal
PermPool ==
    { Rx(<<"c">>, <<"X">>, TRUE),
      Rx(<<"c">>, <<"Z">>, TRUE),
      Rx(<<"c", "r">>, <<"W">>, TRUE),
      Lit(<<"c">>, <<"U">>, TRUE, FALSE),
      Lit(<<"c">>, <<"V">>, TRUE, FALSE),
      Lit(<<"c", "r">>, <<"Y", "Y">>, TRUE, FALSE) }

PermTexts == SeqsUpTo({"c", "r"}, MaxLen)

PermTermSeqs == SeqsUpTo(PermPool, MaxTerms)

\* pattern rules: a lookbehind with something before it, c(?<=c|r)r
PrefixedPattern == <<"c", "(", "?", "<", "=", "c", "|", "r", ")", "r">>

\* two lookbehinds, the second with an alternation, (?<=c)(?<=r|c)r
TwoLookbehinds == <<"(", "?", "<", "=", "c", ")", "(", "?", "<", "=", "r", "|", "c", ")", "r">>

\* a lookbehind for a literal "|", (?<=\|)c
EscapedPipePattern == <<"(", "?", "<", "=", "\\", "|", ")", "c">>

\* an alternative written with a space, (?<= |r)c
SpacedPattern == <<"(", "?", "<", "=", " ", "|", "r", ")", "c">>

\* alternatives of two widths, (?<=c|cr)r
WidePattern == <<"(", "?", "<", "=", "c", "|", "c", "r", ")", "r">>

\* a lookbehind without alternation, (?<=c)r
PlainLookbehind == <<"(", "?", "<", "=", "c", ")", "r">>

\* a group that is not closed, (c
UnclosedPattern == <<"(", "c">>

\* pattern rule with the optional key id
RxId(orig, repl, cs, id) ==
    [original |-> orig, replacement |-> repl, caseSensitive |-> cs,
     isRegex |-> TRUE, wholeWord |-> FALSE, id |-> id]

RxRules ==
    { Rx(CrPattern, Credits, TRUE),
      Rx(PrefixedPattern, <<"X">>, TRUE),
      Rx(TwoLookbehinds, <<"X">>, TRUE),
      Rx(EscapedPipePattern, <<"X">>, TRUE),
      Rx(SpacedPattern, <<"X">>, FALSE),
      Rx(WidePattern, <<"X">>, TRUE),
      Rx(PlainLookbehind, <<"X">>, TRUE),
      Rx(<<"c", "r">>, <<"X">>, FALSE),
      RxId(UnclosedPattern, <<"X">>, TRUE, <<"k", "9">>) }

\* one pattern rule, or one after a literal rule or after a pattern rule
RxTermSeqs ==
    {<<r>> : r \in RxRules}
        \cup {<<Lit(<<"c">>, <<"U">>, TRUE, FALSE), r>> : r \in RxRules}
        \cup {<<Rx(<<"r">>, <<"Z">>, TRUE), r>> : r \in RxRules}

RxTexts == SeqsUpTo({"c", "r", " "}, MaxRxLen)

\* rules as a rule document holds them: a complete rule, one with the
\* optional keys, one without each required key, one with a value of the
\* wrong type under each key
ValidRaw ==
    [original |-> JStr(<<"c">>), replacement |-> JStr(<<"X">>),
     caseSensitive |-> JBool(TRUE), isRegex |-> JBool(FALSE)]

FullRaw ==
    [original |-> JStr(<<"c", "r">>), replacement |-> JStr(<<>>),
     caseSensitive |-> JBool(FALSE), isRegex |-> JBool(FALSE),
     wholeWord |-> JBool(TRUE), id |-> JStr(<<"k", "9">>)]

Without(k) == [f \in DOMAIN FullRaw \ {k} |-> FullRaw[f]]

WrongType(k) ==
    [FullRaw EXCEPT ![k] = IF FullRaw[k].type = "str" THEN JNum ELSE JStr(<<"1">>)]

RawTermPool ==
    {ValidRaw, FullRaw}
        \cup {Without(required_keys[i]) : i \in 1..Len(required_keys)}
        \cup {WrongType(k) : k \in DOMAIN FullRaw}

\* what file_path can hold: no file, a file that is not JSON, a JSON number,
\* an array of rules, an object
Document(type, items, keys, settings, dterms) ==
    [type |-> type, items |-> items, keys |-> keys, settings |-> settings, terms |-> dterms]

OtherDocuments ==
    {Document(t, <<>>, {}, <<>>, <<>>) : t \in {"missing", "garbage", "scalar"}}

ListDocuments ==
    {Document("list", items, {}, <<>>, <<>>) : items \in SeqsUpTo(RawTermPool, MaxRules)}

\* the book keys the objects are written for: "b-c" and "b"
KeyBC == <<"b", "-", "c">>

KeyB == <<"b">>

SettingsPool ==
    { <<>>,
      <<[key |-> KeyBC, isDisabled |-> "true"], [key |-> KeyB, isDisabled |-> "false"]>>,
      <<[key |-> KeyBC, isDisabled |-> "absent"], [key |-> KeyB, isDisabled |-> "true"]>> }

TermsPool ==
    { <<[key |-> KeyBC, value |-> [is_list |-> TRUE, items |-> <<ValidRaw>>]],
        [key |-> KeyB, value |-> [is_list |-> TRUE, items |-> <<FullRaw, Without("isRegex")>>]]>>,
      <<[key |-> KeyBC, value |-> [is_list |-> FALSE, items |-> <<>>]],
        [key |-> KeyB, value |-> [is_list |-> TRUE, items |-> <<ValidRaw, FullRaw>>]]>>,
      <<[key |-> <<"z">>, value |-> [is_list |-> TRUE, items |-> <<ValidRaw>>]]>> }

KeySets ==
    { {"formatVersion", "settings", "terms"}, {"settings", "terms"},
      {"formatVersion", "terms"}, {"formatVersion", "settings"} }

DictDocuments ==
    {Document("dict", <<>>, ks, st, tm) : ks \in KeySets, st \in SettingsPool, tm \in TermsPool}

\* b-terms.json, b.json, d/b_c-terms.json, b-terms.txt
FilePaths ==
    { <<"b", "-", "t", "e", "r", "m", "s", ".", "j", "s", "o", "n">>,
      <<"b", ".", "j", "s", "o", "n">>,
      <<"d", "/", "b", "_", "c", "-", "t", "e", "r", "m", "s", ".", "j", "s", "o", "n">>,
      <<"b", "-", "t", "e", "r", "m", "s", ".", "t", "x", "t">> }

\* no target, d/B_c.epub, b_c.epub, B.EPUB
EpubPaths ==
    { <<>>,
      <<"d", "/", "B", "_", "c", ".", "e", "p", "u", "b">>,
      <<"b", "_", "c", ".", "e", "p", "u", "b">>,
      <<"B", ".", "E", "P", "U", "B">> }

\* ------------------------------------------------------ the state machine

\* how a call ended: not yet, with a return, or with an exception of the
\* class `error` whose str() is `message`
NoOutcome == [status |-> "none", error |-> "", message |-> <<>>]

Returned == [status |-> "returned", error |-> "", message |-> <<>>]

Raised(error, message) == [status |-> "raised", error |-> error, message |-> message]

\* the class the functions of search_replace_processor raise, under the
\* name their module binds it to
SearchReplaceError == "SearchReplaceError"

\* "Error applying search-replace: "
ErrorApplying == <<"E", "r", "r", "o", "r", " ", "a", "p", "p", "l", "y", "i", "n", "g", " ", "s", "e", "a", "r", "c", "h", "-", "r", "e", "p", "l", "a", "c", "e", ":", " ">>

\* the arguments of the re.compile calls that built the matchers cs
CompileCalls(cs) ==
    [i \in 1..Len(cs) |-> [pattern |-> cs[i].pattern, ignorecase |-> cs[i].ignorecase]]

\* the first pattern rule whose pattern re.compile rejects (0: none)
FirstUncompilable(ts) ==
    LET rx  == RegexTerms(ts)
        bad == {i \in 1..Len(rx) : CompileError(rx[i].pattern) # <<>>}
    IN  IF bad = {} THEN 0 ELSE CHOOSE i \in bad : \A k \in bad : i <= k

\* no call of load_search_replace_terms is under way
LoaderIdle ==
    /\ file_path = <<>>
    /\ epub_path = <<>>
    /\ document = [type |-> "none"]
    /\ game_name = <<>>
    /\ loader_terms = <<>>
    /\ validated_terms = <<>>

\* no call of apply_search_replace_to_epub is under way
EpubIdle ==
    /\ enable_parallel_processing = FALSE
    /\ processable_items = <<>>
    /\ book = <<>>
    /\ max_workers = 0
    /\ work_queue = <<>>
    /\ running = <<>>
    /\ futures = <<>>
    /\ started = <<>>
    /\ set_calls = <<>>
    /\ processed_count = 0

\* no call of extract_chapters_text is under way
ExtractIdle ==
    /\ chapters = <<>>
    /\ start_chapter = 0
    /\ max_count = 0
    /\ current_chapter = 0
    /\ total_count = 0
    /\ included_chapters = <<>>

\* the question of line 92 has not been asked in this call
NotAsked == [asked |-> FALSE, answer |-> <<>>]

\* the interactive loop is not running
MainIdle ==
    /\ config = [max_words |-> 0, max_tokens |-> 0, counting_mode |-> "words"]
    /\ screen = {}
    /\ clipboard = <<>>
    /\ dispatched = <<>>
    /\ use_search_replace = NotAsked

AppIdle == EpubIdle /\ ExtractIdle /\ MainIdle

Init ==
    /\ pc = "start"
    /\ \/ text \in Texts /\ terms \in TermSeqs
       \/ \E sc \in Scenarios : text = sc[1] /\ terms = sc[2]
    /\ replacements = <<>>
    /\ winning = <<>>
    /\ result = <<>>
    /\ given = [text |-> text, terms |-> terms]
    /\ calls = <<>>
    /\ handed = <<>>
    /\ outcome = NoOutcome
    /\ LoaderIdle
    /\ AppIdle

\* variant: `replacements` is a list that outlives the call
CollectIntoSharedList ==
    /\ pc = "start"
    /\ replacements' = replacements \o FindAllMatches(CompiledTerms(terms), text)
    /\ handed' = CompileCalls(CompiledTerms(terms))
    /\ pc' = "collected"
    /\ UNCHANGED <<text, terms, winning, result, given, calls, outcome, loaderVars, appVars>>

\* lines 120-191: categorise, compile, find all matches; a pattern that
\* re.compile rejects ends the call in the handler of lines 217-218
Collect ==
    /\ pc = "start"
    /\ LET k == FirstUncompilable(terms) IN
       IF k = 0
       THEN /\ handed' = CompileCalls(CompiledTerms(terms))
            /\ replacements' = FindAllMatches(CompiledTerms(terms), text)
            /\ pc' = "collected"
            /\ UNCHANGED outcome
       ELSE /\ handed' = CompileCalls(SubSeq(RegexTerms(terms), 1, k))
            /\ outcome' = Raised(SearchReplaceError,
                                 ErrorApplying \o CompileError(RegexTerms(terms)[k].pattern))
            /\ pc' = "failed"
            /\ UNCHANGED replacements
    /\ UNCHANGED <<text, terms, winning, result, given, calls, loaderVars, appVars>>

\* lines 193-202: sort by (start, -end), select non-overlapping
Resolve ==
    /\ pc = "collected"
    /\ replacements' = SortReplacements(replacements)
    /\ winning' = SelectNonOverlapping(SortReplacements(replacements))
    /\ pc' = "resolved"
    /\ UNCHANGED <<text, terms, result, given, calls, handed, outcome, loaderVars, appVars>>

\* lines 204-215: sort by start descending, splice, return
Rewrite ==
    /\ pc = "resolved"
    /\ winning' = SortByStartDesc(winning)
    /\ result' = ApplyAll(text, SortByStartDesc(winning))
    /\ calls' = Append(calls, [text |-> text, terms |-> terms,
                               result |-> ApplyAll(text, SortByStartDesc(winning))])
    /\ outcome' = Returned
    /\ pc' = "done"
    /\ UNCHANGED <<text, terms, replacements, given, handed, loaderVars, appVars>>

Next == Collect \/ Resolve \/ Rewrite

Spec == Init /\ [][Next]_vars

\* the same machine on the inputs of the end-to-end scenario
InitCr ==
    /\ pc = "start"
    /\ \/ text \in CrTexts /\ terms \in CrTermSeqs
       \/ \E sc \in Scenarios : text = sc[1] /\ terms = sc[2]
    /\ replacements = <<>>
    /\ winning = <<>>
    /\ result = <<>>
    /\ given = [text |-> text, terms |-> terms]
    /\ calls = <<>>
    /\ handed = <<>>
    /\ outcome = NoOutcome
    /\ LoaderIdle
    /\ AppIdle

SpecCr == InitCr /\ [][Next]_vars

\* the inputs of repeated calls: the shorter worked examples
CallInputs == {sc \in Scenarios : Len(sc[1]) < 10}

\* a caller that calls again after a call has returned; what the returned
\* call left in its locals is still there, and every local is assigned
\* before it is read
NewCall ==
    /\ pc = "done"
    /\ Len(calls) < MaxCalls
    /\ \E sc \in CallInputs :
          /\ text' = sc[1]
          /\ terms' = sc[2]
          /\ given' = [text |-> sc[1], terms |-> sc[2]]
    /\ outcome' = NoOutcome
    /\ pc' = "start"
    /\ UNCHANGED <<replacements, winning, result, calls, handed, loaderVars, appVars>>

InitCalls ==
    /\ pc = "start"
    /\ \E sc \in CallInputs : text = sc[1] /\ terms = sc[2]
    /\ replacements = <<>>
    /\ winning = <<>>
    /\ result = <<>>
    /\ given = [text |-> text, terms |-> terms]
    /\ calls = <<>>
    /\ handed = <<>>
    /\ outcome = NoOutcome
    /\ LoaderIdle
    /\ AppIdle

NextCalls == Collect \/ Resolve \/ Rewrite \/ NewCall

SpecCalls == InitCalls /\ [][NextCalls]_vars

\* the same machine on rule sequences whose rules compete for spans
InitPerm ==
    /\ pc = "start"
    /\ text \in PermTexts
    /\ terms \in PermTermSeqs
    /\ replacements = <<>>
    /\ winning = <<>>
    /\ result = <<>>
    /\ given = [text |-> text, terms |-> terms]
    /\ calls = <<>>
    /\ handed = <<>>
    /\ outcome = NoOutcome
    /\ LoaderIdle
    /\ AppIdle

SpecPerm == InitPerm /\ [][Next]_vars

\* the same machine on pattern rules
InitRx ==
    /\ pc = "start"
    /\ text \in RxTexts
    /\ terms \in RxTermSeqs
    /\ replacements = <<>>
    /\ winning = <<>>
    /\ result = <<>>
    /\ given = [text |-> text, terms |-> terms]
    /\ calls = <<>>
    /\ handed = <<>>
    /\ outcome = NoOutcome
    /\ LoaderIdle
    /\ AppIdle

SpecRx == InitRx /\ [][Next]_vars

\* a call of load_search_replace_terms(file_path, epub_path)
InitLoad ==
    /\ pc = "load"
    /\ file_path \in FilePaths
    /\ \/ document \in ListDocuments /\ epub_path = <<>>
       \/ document \in DictDocuments \cup OtherDocuments /\ epub_path \in EpubPaths
    /\ game_name = <<>>
    /\ loader_terms = <<>>
    /\ validated_terms = <<>>
    /\ outcome = NoOutcome
    /\ text = <<>>
    /\ terms = <<>>
    /\ replacements = <<>>
    /\ winning = <<>>
    /\ result = <<>>
    /\ given = [text |-> <<>>, terms |-> <<>>]
    /\ calls = <<>>
    /\ handed = <<>>
    /\ AppIdle

\* lines 66-90: check the file, read it, select the rules
LoadSelect ==
    /\ pc = "load"
    /\ game_name' = IF /\ ValidateJsonFileError(file_path, document) = <<>>
                       /\ document.type = "dict"
                       /\ {"formatVersion", "settings", "terms"} \subseteq document.keys
                    THEN GameName(file_path, epub_path) ELSE game_name
    /\ IF SelectError(file_path, epub_path, document) = <<>>
       THEN /\ loader_terms' = SelectedTerms(document, GameName(file_path, epub_path))
            /\ pc' = "selected"
            /\ UNCHANGED outcome
       ELSE /\ outcome' = Raised(SearchReplaceError,
                                 SelectError(file_path, epub_path, document))
            /\ pc' = "load_failed"
            /\ UNCHANGED loader_terms
    /\ UNCHANGED <<file_path, epub_path, document, validated_terms>>
    /\ UNCHANGED <<text, terms, replacements, winning, result, given, calls, handed, appVars>>

\* lines 92-97 and the handler of lines 101-102: validate every rule, return
LoadValidate ==
    /\ pc = "selected"
    /\ LET k == FirstInvalid(loader_terms) IN
       IF k = 0
       THEN /\ validated_terms' = loader_terms
            /\ outcome' = Returned
            /\ pc' = "loaded"
       ELSE /\ validated_terms' = SubSeq(loader_terms, 1, k - 1)
            /\ outcome' = Raised(SearchReplaceError,
                                 ErrorLoading \o ValidateTermError(loader_terms[k]))
            /\ pc' = "load_failed"
    /\ UNCHANGED <<file_path, epub_path, document, game_name, loader_terms>>
    /\ UNCHANGED <<text, terms, replacements, winning, result, given, calls, handed, appVars>>

NextLoad == LoadSelect \/ LoadValidate

SpecLoad == InitLoad /\ [][NextLoad]_vars

\* the names src/utils/error_handler.py binds
ErrorHandlerNames ==
    {"sys", "ChapterClipError", "InvalidEpubError", "ChapterNotFoundError",
     "ClipboardError", "ValidationError", "handle_error", "safe_execute"}

\* "cannot import name 'SearchReplaceError' from 'utils.error_handler'"; the
\* path of the file follows it
CannotImport == <<"c", "a", "n", "n", "o", "t", " ", "i", "m", "p", "o", "r", "t", " ", "n", "a", "m", "e", " ", "'", "S", "e", "a", "r", "c", "h", "R", "e", "p", "l", "a", "c", "e", "E", "r", "r", "o", "r", "'", " ", "f", "r", "o", "m", " ", "'", "u", "t", "i", "l", "s", ".", "e", "r", "r", "o", "r", "_", "h", "a", "n", "d", "l", "e", "r", "'">>

\* a caller about to import the module, as apply_search_replace_to_epub does
\* before its first call
InitImport ==
    /\ pc = "import"
    /\ text \in Texts
    /\ terms \in TermSeqs
    /\ replacements = <<>>
    /\ winning = <<>>
    /\ result = <<>>
    /\ given = [text |-> text, terms |-> terms]
    /\ calls = <<>>
    /\ handed = <<>>
    /\ outcome = NoOutcome
    /\ LoaderIdle
    /\ AppIdle

\* lines 1-5 of search_replace_processor: the module's imports
ImportModule ==
    /\ pc = "import"
    /\ IF SearchReplaceError \in ErrorHandlerNames
       THEN pc' = "start" /\ UNCHANGED outcome
       ELSE pc' = "import_failed" /\ outcome' = Raised("ImportError", CannotImport)
    /\ UNCHANGED <<text, terms, replacements, winning, result, given, calls, handed>>
    /\ UNCHANGED <<loaderVars, appVars>>

NextImport == ImportModule

SpecImport == InitImport /\ [][NextImport]_vars

\* ------------------------------------- apply_search_replace_to_epub

\* stands for a lone surrogate such as U+D800, which a JSON string may hold
\* and str.encode('utf-8') refuses
LoneSurrogate == "S"

\* whether replaced_content.encode('utf-8') succeeds
Encodable(s) == LoneSurrogate \notin Range(s)

\* whether apply_search_replace(content, terms) raises
ApplyRaises(ts) == FirstUncompilable(ts) # 0

\* process_item run by one thread from start to end: the content the item
\* has afterwards, and whether set_content was called
ProcessItem(content, ts) ==
    IF ApplyRaises(ts) THEN [content |-> content, set |-> FALSE]
    ELSE LET replaced_content == apply_search_replace(content, ts) IN
         IF replaced_content # content /\ Encodable(replaced_content)
         THEN [content |-> replaced_content, set |-> TRUE]
         ELSE [content |-> content, set |-> FALSE]

\* the items the loop of lines 324-333 leaves behind
SequentialBook(items, ts) ==
    [i \in 1..Len(items) |-> ProcessItem(items[i], ts).content]

IdleWorker == [item |-> 0, st |-> "idle", replaced_content |-> <<>>]

\* variant: the task stays in the queue after a worker took it
DequeueKeep(q) == q

\* the pool's queue.get(): the task leaves the queue
Dequeue(q) == Tail(q)

EpubContents == {<<"c">>, <<"r">>, <<"c", "r">>}

EpubItemLists == SeqsUpTo(EpubContents, MaxItems)

\* rule sequences: one that rewrites "c", one whose replacement cannot be
\* encoded, both, one that rewrites "c" to itself, one that does not compile
EpubTermSeqs ==
    { <<Lit(<<"c">>, <<"X">>, TRUE, FALSE)>>,
      <<Lit(<<"r">>, <<LoneSurrogate>>, TRUE, FALSE)>>,
      <<Lit(<<"c">>, <<"X">>, TRUE, FALSE), Lit(<<"r">>, <<LoneSurrogate>>, TRUE, FALSE)>>,
      <<Lit(<<"c">>, <<"c">>, TRUE, FALSE)>>,
      <<Rx(UnclosedPattern, <<"X">>, TRUE)>> }

\* apply_search_replace_to_epub(terms) at line 283, the processable items
\* collected
InitEpub ==
    /\ pc = "epub"
    /\ terms \in EpubTermSeqs
    /\ processable_items \in EpubItemLists
    /\ book = processable_items
    /\ enable_parallel_processing \in BOOLEAN
    /\ max_workers \in 1..MaxWorkers
    /\ work_queue = <<>>
    /\ running = [w \in 1..max_workers |-> IdleWorker]
    /\ futures = [i \in 1..Len(processable_items) |-> "none"]
    /\ started = <<>>
    /\ set_calls = <<>>
    /\ processed_count = 0
    /\ text = <<>>
    /\ replacements = <<>>
    /\ winning = <<>>
    /\ result = <<>>
    /\ given = [text |-> <<>>, terms |-> terms]
    /\ calls = <<>>
    /\ handed = <<>>
    /\ outcome = NoOutcome
    /\ LoaderIdle
    /\ ExtractIdle
    /\ MainIdle

epubFrame == <<text, terms, replacements, winning, result, given, calls, handed, loaderVars,
               extractVars, mainVars>>

\* lines 283-305: return 0 without items, else take the branch of the setting
EpubStart ==
    /\ pc = "epub"
    /\ IF processable_items = <<>>
       THEN pc' = "epub_returned" /\ outcome' = Returned
       ELSE /\ pc' = IF enable_parallel_processing THEN "epub_submit" ELSE "epub_seq"
            /\ UNCHANGED outcome
    /\ UNCHANGED <<epubVars, epubFrame>>

\* line 309: executor.submit for the next item
Submit ==
    /\ pc = "epub_submit"
    /\ \E i \in 1..Len(futures) :
          /\ futures[i] = "none"
          /\ \A k \in 1..(i - 1) : futures[k] # "none"
          /\ futures' = [futures EXCEPT ![i] = "pending"]
          /\ work_queue' = Append(work_queue, i)
          /\ pc' = IF i = Len(futures) THEN "epub_collect" ELSE "epub_submit"
    /\ UNCHANGED <<enable_parallel_processing, processable_items, book, max_workers,
                   running, started, set_calls, processed_count, outcome, epubFrame>>

\* a worker thread takes the next task and enters process_item
TakeTask(w) ==
    /\ running[w].st = "idle"
    /\ work_queue # <<>>
    /\ running' = [running EXCEPT ![w] = [item |-> Head(work_queue), st |-> "apply",
                                          replaced_content |-> <<>>]]
    /\ started' = Append(started, <<Head(work_queue), w>>)
    /\ work_queue' = Dequeue(work_queue)
    /\ UNCHANGED <<pc, enable_parallel_processing, processable_items, book, max_workers,
                   futures, set_calls, processed_count, outcome, epubFrame>>

\* lines 289-292 and 297-300: the call of apply_search_replace and the
\* comparison; an exception or an equal text ends the task with False
RunApply(w) ==
    /\ running[w].st = "apply"
    /\ LET i       == running[w].item
           content == processable_items[i]
       IN  IF ApplyRaises(terms) \/ apply_search_replace(content, terms) = content
           THEN /\ futures' = [futures EXCEPT ![i] = "false"]
                /\ running' = [running EXCEPT ![w] = IdleWorker]
           ELSE /\ running' = [running EXCEPT ![w] =
                                  [item |-> i, st |-> "set",
                                   replaced_content |-> apply_search_replace(content, terms)]]
                /\ UNCHANGED futures
    /\ UNCHANGED <<pc, enable_parallel_processing, processable_items, book, max_workers,
                   work_queue, started, set_calls, processed_count, outcome, epubFrame>>

\* lines 294-296 and 298-300: encode, set_content, return True; an encoding
\* error ends the task with False
RunSetContent(w) ==
    /\ running[w].st = "set"
    /\ LET i == running[w].item
           c == running[w].replaced_content
       IN  IF Encodable(c)
           THEN /\ book' = [book EXCEPT ![i] = c]
                /\ set_calls' = Append(set_calls, [item |-> i, content |-> c])
                /\ futures' = [futures EXCEPT ![i] = "true"]
           ELSE /\ futures' = [futures EXCEPT ![i] = "false"]
                /\ UNCHANGED <<book, set_calls>>
    /\ running' = [running EXCEPT ![w] = IdleWorker]
    /\ UNCHANGED <<pc, enable_parallel_processing, processable_items, max_workers,
                   work_queue, started, processed_count, outcome, epubFrame>>

\* lines 312-321: as_completed yields a finished future, the count goes up
CountCompleted ==
    /\ pc = "epub_collect"
    /\ \E i \in 1..Len(futures) :
          /\ futures[i] \in {"true", "false"}
          /\ futures' = [futures EXCEPT ![i] = "yielded"]
    /\ processed_count' = processed_count + 1
    /\ UNCHANGED <<pc, enable_parallel_processing, processable_items, book, max_workers,
                   work_queue, running, started, set_calls, outcome, epubFrame>>

\* lines 307 and 335-336: every future yielded, the pool shut down, return
ReturnCount ==
    /\ pc = "epub_collect"
    /\ \A i \in 1..Len(futures) : futures[i] = "yielded"
    /\ pc' = "epub_returned"
    /\ outcome' = Returned
    /\ UNCHANGED <<epubVars, epubFrame>>

\* lines 324-333: one round of the sequential loop, process_item included
SequentialItem ==
    /\ pc = "epub_seq"
    /\ LET i == processed_count + 1
           p == ProcessItem(processable_items[i], terms)
       IN  /\ book' = [book EXCEPT ![i] = p.content]
           /\ set_calls' = IF p.set THEN Append(set_calls, [item |-> i, content |-> p.content])
                           ELSE set_calls
           /\ started' = Append(started, <<i, 0>>)
           /\ processed_count' = i
           /\ IF i = Len(processable_items)
              THEN pc' = "epub_returned" /\ outcome' = Returned
              ELSE UNCHANGED <<pc, outcome>>
    /\ UNCHANGED <<enable_parallel_processing, processable_items, max_workers,
                   work_queue, running, futures, epubFrame>>

NextEpub ==
    \/ EpubStart
    \/ Submit
    \/ \E w \in 1..max_workers : TakeTask(w)
    \/ \E w \in 1..max_workers : RunApply(w)
    \/ \E w \in 1..max_workers : RunSetContent(w)
    \/ CountCompleted
    \/ ReturnCount
    \/ SequentialItem

SpecEpub == InitEpub /\ [][NextEpub]_vars

\* ------------------------------------------- extract_chapters_text

\* a chapter text of n words: count_words gives len(text.split()) = n
ChapterText(n) == Join([i \in 1..n |-> <<"w">>], <<" ">>)

\* "\n\n{chapter_title}\n\n"
TitleBlock == <<"\n", "\n", "T", "\n", "\n">>

\* get_real_chapter_number(current_chapter - 1), None falling back to
\* current_chapter (line 148)
IncludedNumber(chs, k) ==
    IF chs[k].real_num # 0 THEN chs[k].real_num ELSE k

\* variant: the chapter is taken whatever its count
WouldExceedNever(total, count, limit) == FALSE

\* the test of line 121
WouldExceed(total, count, limit) == total + count > limit

\* variant: the loop stays on the chapter it has just included
SameChapter(c) == c

\* line 150
NextChapter(c) == c + 1

\* the counts a chapter may have, and the books: a chapter has its count,
\* whether lines 126-143 add its title, and its real number (0: None)
ChapterCounts == {0, 1, 2}

ChapterPool == [count : ChapterCounts, title : BOOLEAN]

Book(items, numbered) ==
    [k \in 1..Len(items) |->
        [count |-> items[k].count, title |-> items[k].title,
         real_num |-> IF numbered THEN 10 + k ELSE 0]]

Books == {Book(items, numbered) : items \in SeqsUpTo(ChapterPool, MaxChapters) \ {<<>>},
                                  numbered \in BOOLEAN}

\* extract_chapters_text(epub_processor, start_chapter, max_count) at line 108
InitExtract ==
    /\ pc = "extract"
    /\ chapters \in Books
    /\ start_chapter \in 1..Len(chapters)
    /\ max_count \in 0..MaxLimit
    /\ current_chapter = 0
    /\ total_count = 0
    /\ included_chapters = <<>>
    /\ text = <<>>
    /\ terms = <<>>
    /\ replacements = <<>>
    /\ winning = <<>>
    /\ result = <<>>
    /\ given = [text |-> <<>>, terms |-> <<>>]
    /\ calls = <<>>
    /\ handed = <<>>
    /\ outcome = NoOutcome
    /\ LoaderIdle
    /\ EpubIdle
    /\ MainIdle

extractFrame == <<terms, replacements, winning, result, given, calls, handed, outcome,
                  loaderVars, epubVars, mainVars>>

\* lines 108-111
ExtractBegin ==
    /\ pc = "extract"
    /\ text' = <<>>
    /\ current_chapter' = start_chapter
    /\ total_count' = 0
    /\ included_chapters' = <<>>
    /\ pc' = "extract_loop"
    /\ UNCHANGED <<chapters, start_chapter, max_count, extractFrame>>

\* lines 113-150: one round of the loop, which ends in the break of line
\* 124 or with the chapter included
ExtractChapter ==
    /\ pc = "extract_loop"
    /\ total_count < max_count /\ current_chapter <= Len(chapters)
    /\ LET chapter       == chapters[current_chapter]
           chapter_count == chapter.count
       IN  IF WouldExceed(total_count, chapter_count, max_count)
           THEN /\ pc' = "extract_end"
                /\ UNCHANGED <<text, total_count, included_chapters, current_chapter>>
           ELSE /\ text' = text \o (IF chapter.title THEN TitleBlock ELSE <<>>)
                                \o ChapterText(chapter_count) \o <<"\n", "\n">>
                /\ total_count' = total_count + chapter_count
                /\ included_chapters' = Append(included_chapters,
                                               IncludedNumber(chapters, current_chapter))
                /\ current_chapter' = NextChapter(current_chapter)
                /\ UNCHANGED pc
    /\ UNCHANGED <<chapters, start_chapter, max_count, extractFrame>>

\* lines 152-153, after the break or when the loop condition fails
ExtractReturn ==
    /\ \/ pc = "extract_end"
       \/ pc = "extract_loop"
            /\ ~(total_count < max_count /\ current_chapter <= Len(chapters))
    /\ text' = Strip(text)
    /\ pc' = "extract_returned"
    /\ UNCHANGED <<chapters, start_chapter, max_count, current_chapter, total_count,
                   included_chapters, extractFrame>>

NextExtract == ExtractBegin \/ ExtractChapter \/ ExtractReturn

SpecExtract == InitExtract /\ [][NextExtract]_vars

\* the loop is not left waiting: a thread that can take a step takes it
FairSpecExtract == SpecExtract /\ WF_vars(NextExtract)

\* ------------------------------------------------ run, handle_extraction

\* the options display_main_menu prints, by their number: what each label
\* names
MenuLabels == <<"extract", "replace", "configure", "view", "exit">>

\* the numbers get_user_choice accepts at line 32
MenuChoices == {1, 2, 3, 4}

\* lines 34-44: the branch taken for a choice
Dispatch(choice) ==
    IF choice = 1 THEN "extract"
    ELSE IF choice = 2 THEN "configure"
    ELSE IF choice = 3 THEN "view"
    ELSE "exit"

\* the direct base class of each exception class that occurs
BaseOf ==
    [c \in {"ValidationError", "ChapterClipError", "ValueError", "IndexError",
            "LookupError", "Exception"} |->
        IF c = "ValidationError" THEN "ChapterClipError"
        ELSE IF c = "IndexError" THEN "LookupError"
        ELSE IF c = "Exception" THEN "BaseException"
        ELSE "Exception"]

\* whether `except handler` catches an exception of class cls
RECURSIVE Catches(_, _)
Catches(handler, cls) ==
    \/ cls = handler
    \/ cls \in DOMAIN BaseOf /\ Catches(handler, BaseOf[cls])

\* validate_yes_no_input: "true", "false", or "ValidationError" when it raises
validate_yes_no_input(user_input) ==
    LET u == Strip(StrLower(user_input)) IN
    IF u \in {<<"y">>, <<"y", "e", "s">>} THEN "true"
    ELSE IF u \in {<<"n">>, <<"n", "o">>} THEN "false"
    ELSE "ValidationError"

\* the setting configure_settings changes under its option 1
LimitKey(counting_mode) == IF counting_mode = "tokens" THEN "max_tokens" ELSE "max_words"

\* what the user may type at the question of line 92
YesNoAnswers ==
    { <<"y">>, <<" ", "Y", "E", "S">>, <<"n">>, <<"N", "o", " ">>,
      <<"m", "a", "y", "b", "e">>, <<>> }

LimitValues == 1..MaxLimit

Configs == [max_words : LimitValues, max_tokens : LimitValues,
            counting_mode : {"words", "tokens"}]

\* books of the interactive runs: two short chapters, one chapter of three
\* words, one chapter without text and title
AppBooks ==
    { Book(<<[count |-> 1, title |-> FALSE], [count |-> 1, title |-> TRUE]>>, FALSE),
      Book(<<[count |-> MaxLimit + 1, title |-> TRUE]>>, TRUE),
      Book(<<[count |-> 0, title |-> FALSE]>>, FALSE) }

\* the rule sets a selected JSON file may hold: one that changes the text,
\* one that does not compile
AppTermSeqs ==
    { <<Lit(<<"w">>, <<"X">>, TRUE, FALSE)>>, <<Rx(UnclosedPattern, <<"X">>, TRUE)>> }

\* the command `run` at line 30, config.yaml as the user left it
InitMain ==
    /\ pc = "loop"
    /\ config \in Configs
    /\ screen = {}
    /\ clipboard = <<>>
    /\ dispatched = <<>>
    /\ use_search_replace = NotAsked
    /\ text = <<>>
    /\ terms = <<>>
    /\ replacements = <<>>
    /\ winning = <<>>
    /\ result = <<>>
    /\ given = [text |-> <<>>, terms |-> <<>>]
    /\ calls = <<>>
    /\ handed = <<>>
    /\ outcome = NoOutcome
    /\ LoaderIdle
    /\ EpubIdle
    /\ ExtractIdle

mainFrame == <<terms, replacements, winning, result, given, calls, handed, outcome,
               loaderVars, epubVars>>

\* lines 30-31: the top of the loop; display_main_menu clears the console
DisplayMenu ==
    /\ pc = "loop"
    /\ screen' = {"Main Menu"}
    /\ pc' = "menu"
    /\ UNCHANGED <<config, clipboard, dispatched, use_search_replace, text, extractVars,
                   mainFrame>>

\* lines 32-44: read a choice and take its branch; a number that is not
\* among the accepted choices is asked for again
Choose ==
    /\ pc = "menu"
    /\ Len(dispatched) < MaxRounds
    /\ \E typed \in 1..Len(MenuLabels) :
          IF typed \in MenuChoices
          THEN /\ dispatched' = Append(dispatched,
                                       [choice |-> typed, action |-> Dispatch(typed)])
               /\ screen' = IF Dispatch(typed) = "exit" THEN screen \cup {"Goodbye!"}
                            ELSE screen
               /\ pc' = IF Dispatch(typed) = "extract" THEN "handle_extraction"
                        ELSE IF Dispatch(typed) = "configure" THEN "configure_settings"
                        ELSE IF Dispatch(typed) = "view" THEN "display_settings"
                        ELSE "exited"
          ELSE UNCHANGED <<dispatched, screen, pc>>
    /\ UNCHANGED <<config, clipboard, use_search_replace, text, extractVars, mainFrame>>

\* configure_settings: option 1 sets the limit of the current counting
\* mode, option 8 the counting mode; the other options set settings the
\* workflow below does not read
ConfigureSettings ==
    /\ pc = "configure_settings"
    /\ \E choice \in {1, 2, 8}, is_int \in BOOLEAN, new_value \in LimitValues,
          new_mode \in {"words", "tokens"} :
          config' = IF choice = 1 /\ is_int
                    THEN [config EXCEPT ![LimitKey(config.counting_mode)] = new_value]
                    ELSE IF choice = 8 THEN [config EXCEPT !.counting_mode = new_mode]
                    ELSE config
    /\ screen' = screen \cup {"Configure Settings"}
    /\ pc' = "loop"
    /\ UNCHANGED <<clipboard, dispatched, use_search_replace, text, extractVars, mainFrame>>

\* display_settings and the prompt of line 40
DisplaySettings ==
    /\ pc = "display_settings"
    /\ screen' = screen \cup {"General Settings"}
    /\ pc' = "loop"
    /\ UNCHANGED <<config, clipboard, dispatched, use_search_replace, text, extractVars,
                   mainFrame>>

\* lines 48-82: pick the file, load it, ask for the chapter, and call
\* extract_chapters_text with the limit of line 81; a call that ends before
\* has no extraction of its own
BeginExtraction ==
    /\ pc = "handle_extraction"
    /\ use_search_replace' = NotAsked
    /\ \E file \in {"", "b.txt", "b.epub"}, loaded \in AppBooks \cup {<<>>},
          is_int \in BOOLEAN, chapter_num \in 0..(MaxChapters + 1), confirmed \in BOOLEAN :
          LET enter(message) ==
                  /\ screen' = screen \cup message
                  /\ pc' = "loop"
                  /\ text' = <<>>
                  /\ chapters' = <<>>
                  /\ start_chapter' = 0
                  /\ max_count' = 0
                  /\ current_chapter' = 0
                  /\ total_count' = 0
                  /\ included_chapters' = <<>>
          IN  IF file = "" THEN enter({})
              ELSE IF file = "b.txt" THEN enter({"Error: File must be an EPUB file (.epub)"})
              ELSE IF loaded = <<>> THEN enter({"No chapters found in the EPUB file."})
              ELSE IF ~is_int THEN enter({"Invalid chapter number."})
              ELSE IF chapter_num < 1
                   THEN enter({"Error: Chapter number must be a positive integer"})
              ELSE IF chapter_num > Len(loaded)
                   THEN enter({"Error: Chapter number exceeds available chapters"})
              ELSE IF ~confirmed THEN enter({})
              ELSE /\ chapters' = loaded
                   /\ start_chapter' = chapter_num
                   /\ max_count' = config.max_words
                   /\ current_chapter' = 0
                   /\ total_count' = 0
                   /\ included_chapters' = <<>>
                   /\ text' = <<>>
                   /\ pc' = "extract"
                   /\ UNCHANGED screen
    /\ UNCHANGED <<config, clipboard, dispatched, mainFrame>>

\* lines 83-89: the log line that reads included_chapters[0], whose
\* IndexError the handler of lines 120-123 reports, and the test of the text
ReportExtraction ==
    /\ pc = "extract_returned"
    /\ dispatched # <<>>
    /\ IF included_chapters = <<>>
       THEN /\ screen' = screen \cup {"Error: list index out of range"}
            /\ pc' = "loop"
       ELSE IF text = <<>>
       THEN /\ screen' = screen \cup {"No text extracted. The chapter might be empty or exceed word limits."}
            /\ pc' = "loop"
       ELSE /\ pc' = "ask_search_replace"
            /\ UNCHANGED screen
    /\ UNCHANGED <<config, clipboard, dispatched, use_search_replace, text, extractVars,
                   mainFrame>>

\* lines 92-99: the question, validate_yes_no_input, and the handler that
\* catches ValueError; what it does not catch goes to lines 120-123
AskSearchReplace ==
    /\ pc = "ask_search_replace"
    /\ \E answer \in YesNoAnswers :
          /\ use_search_replace' = [asked |-> TRUE, answer |-> answer]
          /\ LET use_sr == validate_yes_no_input(answer) IN
             IF use_sr = "true" THEN pc' = "search_replace" /\ UNCHANGED screen
             ELSE IF use_sr = "false" THEN pc' = "copy" /\ UNCHANGED screen
             ELSE IF Catches("ValueError", use_sr)
                  THEN /\ screen' = screen \cup {"Invalid input. Skipping search-replace."}
                       /\ pc' = "copy"
                  ELSE /\ screen' = screen \cup {"Error: Please enter 'y' or 'n'"}
                       /\ pc' = "loop"
    /\ UNCHANGED <<config, clipboard, dispatched, text, extractVars, mainFrame>>

\* lines 100-115: one round of the loop: load the rules of the selected
\* file and apply them, or report the error and retry or skip
SearchReplace ==
    /\ pc = "search_replace"
    /\ \E loaded \in BOOLEAN, ts \in AppTermSeqs, retry \in BOOLEAN :
          IF loaded /\ ~ApplyRaises(ts)
          THEN /\ text' = apply_search_replace(text, ts)
               /\ screen' = screen \cup {"Search-replace applied successfully."}
               /\ pc' = "copy"
          ELSE /\ screen' = screen \cup
                     ({"Error processing search-replace"}
                         \cup IF retry THEN {} ELSE {"Skipping search-replace."})
               /\ pc' = IF retry THEN "search_replace" ELSE "copy"
               /\ UNCHANGED text
    /\ UNCHANGED <<config, clipboard, dispatched, use_search_replace, extractVars, mainFrame>>

\* lines 117-118: copy_to_clipboard and display_extraction_result
CopyAndDisplay ==
    /\ pc = "copy"
    /\ clipboard' = Append(clipboard, [round |-> Len(dispatched), text |-> text])
    /\ screen' = screen \cup {"Extraction Complete!"}
    /\ pc' = "loop"
    /\ UNCHANGED <<config, dispatched, use_search_replace, text, extractVars, mainFrame>>

NextMain ==
    \/ DisplayMenu
    \/ Choose
    \/ ConfigureSettings
    \/ DisplaySettings
    \/ BeginExtraction
    \/ ExtractBegin
    \/ ExtractChapter
    \/ ExtractReturn
    \/ ReportExtraction
    \/ AskSearchReplace
    \/ SearchReplace
    \/ CopyAndDisplay

SpecMain == InitMain /\ [][NextMain]_vars

\* ---------------------------------------------------------------- claims

Candidates == Range(replacements)

Accepted == Range(winning)

Resolved == pc \in {"resolved", "done"}

SpanSet(S) == {<<m.start, m.end>> : m \in S}

\* the text with the span of every match of ws that starts at or after p
\* replaced, read left to right from offset p
RECURSIVE Rebuild(_, _, _)
Rebuild(t, ws, p) ==
    IF p >= Len(t) THEN <<>>
    ELSE IF \E w \in ws : w.start = p
         THEN LET w == CHOOSE x \in ws : x.start = p
              IN  w.replacement \o Rebuild(t, ws, w.end)
         ELSE <<t[p + 1]>> \o Rebuild(t, ws, p + 1)

\* summed replacement lengths minus summed span lengths
RECURSIVE LengthDelta(_)
LengthDelta(ws) ==
    IF ws = <<>> THEN 0
    ELSE Len(Head(ws).replacement) - (Head(ws).end - Head(ws).start)
            + LengthDelta(Tail(ws))

\* C1: the accepted matches are pairwise non-overlapping: of any two, taken
\* in start order, the first ends at or before the start of the second.
C1_NonOverlap ==
    Resolved =>
        \A i, j \in 1..Len(winning) :
            (i # j /\ winning[i].start <= winning[j].start)
                => winning[i].end <= winning[j].start

\* two matches accepted and at least one overlapping candidate discarded
C1_Witness ==
    /\ pc = "resolved"
    /\ Len(winning) >= 2
    /\ \E c \in Candidates, w \in Accepted :
          c \notin Accepted /\ w.start < c.end /\ c.start < w.end

\* C2: the returned text is the input with each accepted span replaced by
\* its replacement and every other character kept in place; its length is
\* len(text) minus the span lengths plus the replacement lengths.
C2_SpliceExact ==
    pc = "done" =>
        /\ result = Rebuild(text, Accepted, 0)
        /\ Len(result) = Len(text) + LengthDelta(winning)

\* two accepted matches, the first of which changes the length, and a
\* character outside the accepted spans
C2_Witness ==
    /\ pc = "done"
    /\ Len(winning) >= 2
    /\ \E w, v \in Accepted :
          w.start < v.start /\ Len(w.replacement) # w.end - w.start
    /\ \E p \in 0..(Len(text) - 1) :
          \A w \in Accepted : ~(w.start <= p /\ p < w.end)

\* C3: the candidate with the smallest start is accepted; a candidate that
\* overlaps an accepted candidate with a strictly smaller start is
\* discarded, even when it is longer: of [0,5) and [2,8) exactly [0,5) is
\* accepted.
C3_EarliestStart ==
    Resolved =>
        /\ replacements # <<>> =>
              \E w \in Accepted : \A c \in Candidates : w.start <= c.start
        /\ \A c \in Candidates :
              (\A d \in Candidates : d # c => c.start < d.start) => c \in Accepted
        /\ \A c \in Candidates, a \in Accepted :
              (a.start < c.start /\ c.start < a.end) => c \notin Accepted
        /\ SpanSet(Candidates) = {<<0, 5>>, <<2, 8>>}
              => SpanSet(Accepted) = {<<0, 5>>}

\* the candidates are [0,5) and [2,8), and the longer one is discarded
C3_Witness ==
    /\ pc = "resolved"
    /\ SpanSet(Candidates) = {<<0, 5>>, <<2, 8>>}
    /\ SpanSet(Accepted) = {<<0, 5>>}

\* C4: of the candidates that share a start at most one is accepted, and an
\* accepted one is never shorter than another candidate with that start.
C4_LongerWinsAtEqualStart ==
    Resolved =>
        /\ \A i, j \in 1..Len(winning) :
              i # j => winning[i].start # winning[j].start
        /\ \A w \in Accepted, c \in Candidates :
              c.start = w.start => c.end <= w.end

\* a shorter candidate loses to an accepted one with the same start, though
\* its matcher comes first
C4_Witness ==
    /\ pc = "resolved"
    /\ \E i, j \in 1..Len(replacements) :
          /\ replacements[i].start = replacements[j].start
          /\ replacements[i].end > replacements[j].end
          /\ replacements[i] \in Accepted
          /\ replacements[j] \notin Accepted

\* whether the literal k occurs at offset p of t, in the rule's case mode
OccursAt(t, k, p, cs) ==
    /\ p + Len(k) <= Len(t)
    /\ IF cs THEN Slice(t, p, p + Len(k)) = k
       ELSE StrLower(Slice(t, p, p + Len(k))) = StrLower(k)

\* a is a proper prefix of b, in the rule's case mode
IsPrefix(a, b, cs) == Len(a) < Len(b) /\ OccursAt(b, a, 0, cs)

PlainLiteral(term) == ~term.isRegex /\ ~WholeWord(term)

\* C5: of two plain literal rules of the same case-sensitivity, one a prefix
\* of the other, it is the longer one's replacement that is applied at every
\* offset where the longer literal occurs and a replacement is applied:
\* cat->X and cats->Y on "cats" give "Y".
C5_LongerLiteral ==
    (pc = "done" /\ Len(terms) = 2) =>
        /\ \A i, j \in 1..2 :
              ( /\ i # j
                /\ PlainLiteral(terms[i]) /\ PlainLiteral(terms[j])
                /\ terms[i].caseSensitive = terms[j].caseSensitive
                /\ IsPrefix(terms[i].original, terms[j].original,
                            terms[j].caseSensitive) )
              => \A p \in 0..Len(text) :
                    ( /\ OccursAt(text, terms[j].original, p, terms[j].caseSensitive)
                      /\ \E w \in Accepted : w.start = p )
                    => \E w \in Accepted :
                          /\ w.start = p
                          /\ w.end = p + Len(terms[j].original)
                          /\ w.replacement = terms[j].replacement
        /\ ( /\ text = <<"c", "a", "t", "s">>
             /\ terms = <<Lit(<<"c", "a", "t">>, <<"X">>, TRUE, FALSE),
                          Lit(<<"c", "a", "t", "s">>, <<"Y">>, TRUE, FALSE)>> )
           => result = <<"Y">>

\* the shorter rule declared first, the longer literal in the text, and the
\* longer rule's replacement applied
C5_Witness ==
    /\ pc = "done"
    /\ Len(terms) = 2
    /\ PlainLiteral(terms[1]) /\ PlainLiteral(terms[2])
    /\ terms[1].caseSensitive = terms[2].caseSensitive
    /\ IsPrefix(terms[1].original, terms[2].original, terms[2].caseSensitive)
    /\ \E w \in Accepted :
          /\ w.end - w.start = Len(terms[2].original)
          /\ w.replacement = terms[2].replacement

\* the occurrence [s, e) of t has a non-word character or a string edge on
\* both sides
Flanked(t, s, e) ==
    /\ s = 0 \/ ~IsWord(t[s])
    /\ e = Len(t) \/ ~IsWord(t[e + 1])

\* C6: a whole-word literal rule rewrites an occurrence of its literal
\* exactly when the occurrence is flanked on both sides by a non-word
\* character or a string edge, whatever the literal begins or ends with.
C6_WholeWordFlanked ==
    ( /\ pc = "done"
      /\ Len(terms) = 1
      /\ ~terms[1].isRegex /\ WholeWord(terms[1])
      /\ terms[1].original # <<>> )
    => \A p \in 0..Len(text) :
          OccursAt(text, terms[1].original, p, terms[1].caseSensitive)
          => ( (\E w \in Accepted :
                   w.start = p /\ w.end = p + Len(terms[1].original))
               <=> Flanked(text, p, p + Len(terms[1].original)) )

\* C7: a case-sensitive literal rule rewrites only exact occurrences, a
\* case-insensitive one every case variant; the inserted text is the rule's
\* replacement as written.
C7_CaseSensitivity ==
    (pc = "done" /\ Len(terms) = 1 /\ ~terms[1].isRegex) =>
        LET r    == terms[1]
            n    == Len(r.original)
            CatText == <<"c", "a", "t", " ", "C", "A", "T", " ", "C", "a", "t">>
        IN  /\ \A w \in Accepted :
                  /\ w.end - w.start = n
                  /\ OccursAt(text, r.original, w.start, r.caseSensitive)
                  /\ w.replacement = r.replacement
            /\ (~WholeWord(r) /\ n > 0) =>
                  \A p \in 0..Len(text) :
                      OccursAt(text, r.original, p, r.caseSensitive)
                      => \E w \in Accepted : w.start < p + n /\ p < w.end
            /\ result = Rebuild(text, Accepted, 0)
            /\ (text = CatText /\ r = Lit(<<"C", "a", "t">>, <<"D", "o", "g">>, TRUE, FALSE))
                  => result = <<"c", "a", "t", " ", "C", "A", "T", " ", "D", "o", "g">>
            /\ (text = CatText /\ r = Lit(<<"C", "a", "t">>, <<"D", "o", "g">>, FALSE, FALSE))
                  => result = <<"D", "o", "g", " ", "D", "o", "g", " ", "D", "o", "g">>

\* a case-insensitive rule written with a capital rewrites an occurrence in
\* another case
C7_Witness ==
    /\ pc = "done"
    /\ Len(terms) = 1
    /\ ~terms[1].isRegex /\ ~terms[1].caseSensitive
    /\ \E w \in Accepted : Slice(text, w.start, w.end) # terms[1].original

\* C8: when no rule produces a non-empty match, and so for the empty rule
\* sequence, the returned text is the input.
C8_NoMatchNoChange ==
    pc = "done" =>
        ((terms = <<>> \/ \A c \in Candidates : c.start = c.end) => result = text)

\* a rule whose pattern matches, but only the empty string
C8_Witness ==
    /\ pc = "done"
    /\ text # <<>>
    /\ \E i \in 1..Len(terms) : terms[i].original = <<>>
    /\ replacements = <<>>
    /\ result = text

\* the offsets where the lookbehind rule is to rewrite "cr": it ends at a
\* word boundary and starts at one or directly follows a digit
CrExpected(t, cs) ==
    {p \in 0..Len(t) :
        /\ OccursAt(t, <<"c", "r">>, p, cs)
        /\ AtBoundary(t, p + 2)
        /\ AtBoundary(t, p) \/ (p > 0 /\ IsDigit(t[p]))}

\* C9: the rule (?<=\d|\b)(cr)\b -> credits rewrites exactly those "cr";
\* "The cr earned was 10 cr." becomes "The credits earned was 10 credits.".
C9_CrScenario ==
    (pc = "done" /\ Len(terms) = 1 /\ terms[1].isRegex /\ terms[1].original = CrPattern)
    => /\ SpanSet(Accepted) =
              {<<p, p + 2>> : p \in CrExpected(text, terms[1].caseSensitive)}
       /\ \A w \in Accepted : w.replacement = Credits
       /\ result = Rebuild(text, Accepted, 0)
       /\ (text = <<"T", "h", "e", " ", "c", "r", " ", "e", "a", "r", "n", "e", "d", " ", "w", "a", "s", " ", "1", "0", " ", "c", "r", ".">> /\ terms[1].caseSensitive)
             => result = <<"T", "h", "e", " ", "c", "r", "e", "d", "i", "t", "s", " ", "e", "a", "r", "n", "e", "d", " ", "w", "a", "s", " ", "1", "0", " ", "c", "r", "e", "d", "i", "t", "s", ".">>

\* a "cr" rewritten because it directly follows a digit
C9_Witness ==
    /\ pc = "done"
    /\ Len(terms) = 1 /\ terms[1].isRegex /\ terms[1].original = CrPattern
    /\ \E w \in Accepted : w.start > 0 /\ IsDigit(text[w.start])
    /\ result # text

\* C10: apply_search_replace is a pure function of (text, terms): calls with
\* equal arguments return equal texts whatever calls came in between, and a
\* call changes neither its text nor its rules.
C10_PureFunction ==
    /\ text = given.text
    /\ terms = given.terms
    /\ \A i \in 1..Len(calls) :
          pc = "done" /\ i = Len(calls) =>
              calls[i].text = given.text /\ calls[i].terms = given.terms
    /\ \A i, j \in 1..Len(calls) :
          (calls[i].text = calls[j].text /\ calls[i].terms = calls[j].terms)
              => calls[i].result = calls[j].result

\* the same arguments in the first and the third call, other arguments in
\* the second, and every call rewrote its text
C10_Witness ==
    /\ Len(calls) = 3
    /\ calls[1].text = calls[3].text /\ calls[1].terms = calls[3].terms
    /\ calls[2].text # calls[1].text
    /\ \A i \in 1..3 : calls[i].result # calls[i].text

\* the rule sequences that are ts in another order
Reorderings(ts) ==
    {[i \in 1..Len(ts) |-> ts[f[i]]] :
        f \in {g \in [1..Len(ts) -> 1..Len(ts)] :
                  \A i, j \in 1..Len(ts) : i # j => g[i] # g[j]}}

\* the spans accepted for the text t under the rules ts
AcceptedSpans(t, ts) ==
    SpanSet(Range(SelectNonOverlapping(
                SortReplacements(FindAllMatches(CompiledTerms(ts), t)))))

\* the spans the rule r matches in t when it is the only rule
RuleSpans(t, r) == SpanSet(Range(FindAllMatches(CompiledTerms(<<r>>), t)))

\* no two rules of ts match the same span of t
NoSharedSpan(t, ts) ==
    \A i, j \in 1..Len(ts) : i # j => RuleSpans(t, ts[i]) \cap RuleSpans(t, ts[j]) = {}

\* C11 as stated: every permutation of the rule sequence gives the same
\* rewritten text.
C11_AnyOrderSameResult ==
    pc = "done" =>
        \A p \in Reorderings(terms) : apply_search_replace(text, p) = result

\* C11 as amended: every permutation of the rule sequence gives the same
\* accepted spans, and the same rewritten text when no two rules match the
\* same span.
C11_SameResultWithoutTies ==
    pc = "done" =>
        /\ \A p \in Reorderings(terms) :
              AcceptedSpans(text, p) = SpanSet(Accepted)
        /\ NoSharedSpan(text, terms) =>
              \A p \in Reorderings(terms) : apply_search_replace(text, p) = result

\* two different rules that compete for overlapping spans without matching
\* the same one, declared in an order that can be changed, and a rewrite
C11_Witness ==
    /\ pc = "done"
    /\ Len(terms) = 2 /\ terms[1] # terms[2]
    /\ NoSharedSpan(text, terms)
    /\ \E c \in Candidates : c \notin Accepted
    /\ result # text

\* whether sub occurs in m
Contains(m, sub) ==
    \E i \in 1..(Len(m) - Len(sub) + 1) : SubSeq(m, i, i + Len(sub) - 1) = sub

\* the pattern rules of the call, in declaration order
PatternRules == SelectSeq(terms, LAMBDA r : r.isRegex)

\* C14: when a pattern rule does not compile after normalization, the call
\* fails and the failure names the rule: its message holds the rule's
\* pattern or its id.
C14_FailureNamesRule ==
    pc = "failed" =>
        /\ outcome.status = "raised"
        /\ LET rule == PatternRules[Len(handed)]
           IN  \/ Contains(outcome.message, rule.original)
               \/ "id" \in DOMAIN rule /\ Contains(outcome.message, rule.id)

\* the index of the ")" that closes the lookbehind opening at index i of p
LookbehindEnd(p, i) == FindClose(p, i + 4, 0)

\* the indexes of p where a lookbehind opens (an escaped "(" opens none)
RECURSIVE LookbehindsFrom(_, _)
LookbehindsFrom(p, i) ==
    IF i > Len(p) THEN {}
    ELSE IF p[i] = "\\" THEN LookbehindsFrom(p, i + 2)
    ELSE (IF IsLookbehindAt(p, i) THEN {i} ELSE {}) \cup LookbehindsFrom(p, i + 1)

Lookbehinds(p) == LookbehindsFrom(p, 1)

\* the body of the lookbehind opening at index i of p
LookbehindBody(p, i) == SubSeq(p, i + 4, LookbehindEnd(p, i) - 1)

\* whether a pattern is an alternation: it has more than one branch
IsAlternation(body) == Len(Branches(body, 1, 0, <<>>)) > 1

\* whether p has a lookbehind whose body is an alternation
HasAlternationLookbehind(p) ==
    \E i \in Lookbehinds(p) : IsAlternation(LookbehindBody(p, i))

\* the spans pattern p matches in t
MatchSpans(p, t, ignorecase) ==
    {<<m.start, m.end>> : m \in Range(FindIter(p, t, ignorecase))}

\* the pattern handed to the engine for the i-th pattern rule
HandedFor(i) == handed[i].pattern

\* C17: normalization preserves matching: for a pattern with a lookbehind
\* whose body is an alternation, whatever stands before or after it, the
\* normalized pattern matches the spans the original matches.
C17_SameSpans ==
    pc = "collected" =>
        \A i \in 1..Len(PatternRules) :
            HasAlternationLookbehind(PatternRules[i].original)
            => MatchSpans(HandedFor(i), text, handed[i].ignorecase)
                 = MatchSpans(PatternRules[i].original, text, handed[i].ignorecase)

\* C18: no pattern handed to the engine has a lookbehind whose body is an
\* alternation, wherever the lookbehind stands and however many there are.
C18_NoAlternationLookbehind ==
    \A i \in 1..Len(handed) : ~HasAlternationLookbehind(handed[i].pattern)

\* C19: a pattern without lookbehind, and a pattern whose lookbehind bodies
\* are no alternations, is handed to the engine as it was written.
C19_Unchanged ==
    pc # "start" =>
        \A i \in 1..Min(Len(PatternRules), Len(handed)) :
            ~HasAlternationLookbehind(PatternRules[i].original)
            => HandedFor(i) = PatternRules[i].original

\* C20: every candidate handed to conflict resolution is a non-empty span
\* inside the text, 0 <= start < end <= len(text); no zero-length match is
\* among the candidates.
C20_NonEmptySpans ==
    \A i \in 1..Len(replacements) :
        /\ 0 <= replacements[i].start
        /\ replacements[i].start < replacements[i].end
        /\ replacements[i].end <= Len(text)

\* a matcher with an empty alternative, which matches the empty string at
\* both ends of the text, and a candidate from the same matcher
C20_Witness ==
    /\ pc = "collected"
    /\ \E i \in 1..Len(terms) : ~terms[i].isRegex /\ terms[i].original = <<>>
    /\ \E m \in Range(FindIter(handed[1].pattern, text, handed[1].ignorecase)) :
          m.start = m.end
    /\ replacements # <<>>

\* the call of load_search_replace_terms has ended
LoadEnded == pc \in {"loaded", "load_failed"}

\* the keys of a rule that make it invalid: a required key it lacks, a key
\* whose value is to be text and is not, a key whose value is to be a
\* boolean and is not
OffendingKeys(term) ==
    {k \in {"original", "replacement", "caseSensitive", "isRegex"} : k \notin DOMAIN term}
        \cup {k \in {"original", "replacement", "id"} \cap DOMAIN term : term[k].type # "str"}
        \cup {k \in {"caseSensitive", "isRegex", "wholeWord"} \cap DOMAIN term :
                  term[k].type # "bool"}

\* C12: the load is all-or-nothing: when a rule of the selected sequence is
\* invalid, at whatever position, the load fails, its error names an
\* offending key of such a rule, and no rules are returned; when rules are
\* returned they are the whole selected sequence.
C12_AllOrNothing ==
    LoadEnded =>
        /\ (\E i \in 1..Len(loader_terms) : OffendingKeys(loader_terms[i]) # {})
              => /\ outcome.status = "raised"
                 /\ \E i \in 1..Len(loader_terms) :
                       \E k \in OffendingKeys(loader_terms[i]) :
                           Contains(outcome.message, Chars(k))
        /\ outcome.status = "returned" => validated_terms = loader_terms

\* valid rules before an invalid one, and the load failed
C12_Witness ==
    /\ pc = "load_failed"
    /\ Len(loader_terms) >= 2
    /\ OffendingKeys(loader_terms[1]) = {}
    /\ OffendingKeys(loader_terms[Len(loader_terms)]) # {}
    /\ validated_terms # <<>>
    /\ outcome.status = "raised"

\* C13: for an object, rules are returned only if it has the three keys,
\* the resolved key is among its terms and its settings do not mark that key
\* disabled; in every other case the load fails.
C13_StructuredDocument ==
    (LoadEnded /\ document.type = "dict") =>
        LET usable ==
                /\ {"formatVersion", "settings", "terms"} \subseteq document.keys
                /\ \E i \in 1..Len(document.terms) : document.terms[i].key = game_name
                /\ ~\E i \in 1..Len(document.settings) :
                       /\ document.settings[i].key = game_name
                       /\ document.settings[i].isDisabled = "true"
        IN  /\ outcome.status = "returned" => usable
            /\ ~usable => outcome.status = "raised" /\ validated_terms = <<>>

\* an object with the three keys and rules for the resolved key, which the
\* settings mark disabled, and the load failed
C13_Witness ==
    /\ pc = "load_failed"
    /\ document.type = "dict"
    /\ {"formatVersion", "settings", "terms"} \subseteq document.keys
    /\ \E i \in 1..Len(document.terms) :
          document.terms[i].key = game_name /\ document.terms[i].value.is_list
    /\ \E i \in 1..Len(document.settings) :
          document.settings[i].key = game_name /\ document.settings[i].isDisabled = "true"

\* C15: every failure reaches the caller as a SearchReplaceError, a class
\* the error module defines, and never as another kind of error.
C15_TypedFailure ==
    outcome.status = "raised" =>
        /\ outcome.error = "SearchReplaceError"
        /\ "SearchReplaceError" \in ErrorHandlerNames

\* s without its extension: what precedes the last "."
RECURSIVE StripExtension(_)
StripExtension(s) ==
    IF "." \notin Range(s) THEN s
    ELSE IF s[Len(s)] = "." THEN SubSeq(s, 1, Len(s) - 1)
    ELSE StripExtension(SubSeq(s, 1, Len(s) - 1))

\* s without the suffix, when it ends with it
StripSuffix(s, suffix) ==
    IF EndsWith(s, suffix) THEN SubSeq(s, 1, Len(s) - Len(suffix)) ELSE s

\* the book key as the claim describes it
ExpectedKey(path, epub) ==
    IF epub # <<>>
    THEN [i \in 1..Len(StripExtension(Basename(epub))) |->
             IF StripExtension(Basename(epub))[i] = "_" THEN "-"
             ELSE LowerChar(StripExtension(Basename(epub))[i])]
    ELSE StripSuffix(StripExtension(Basename(path)), <<"-", "t", "e", "r", "m", "s">>)

\* C16: the book key is the target's base name without its extension,
\* lower-cased, with "-" for every "_", whatever the casing of the
\* extension; without a target it is the document's file name without its
\* extension and without the suffix "-terms".
C16_BookKey ==
    ( /\ pc # "load"
      /\ document.type = "dict"
      /\ ValidateJsonFileError(file_path, document) = <<>>
      /\ {"formatVersion", "settings", "terms"} \subseteq document.keys )
    => game_name = ExpectedKey(file_path, epub_path)

\* whether the spans of two matches share a character
Overlap(a, b) == a.start < b.end /\ b.start < a.end

\* C21: the accepted set is maximal: every candidate that is not accepted
\* overlaps an accepted match, so adding it would create an overlap.
C21_Maximal ==
    Resolved =>
        \A i \in 1..Len(replacements) :
            \/ \E j \in 1..Len(winning) : winning[j] = replacements[i]
            \/ \E w \in Accepted : Overlap(replacements[i], w)

\* a candidate was discarded, and another, adjacent to an accepted match,
\* was accepted
C21_Witness ==
    /\ pc = "resolved"
    /\ \E c \in Candidates : c \notin Accepted
    /\ \E w, v \in Accepted : w.end = v.start

\* C22: an occurrence in the text of a plain literal rule's original is left
\* unrewritten only if it overlaps an accepted span: it is not lost because
\* another literal of its group matched an overlapping span that was
\* discarded afterwards.
C22_OccurrenceLostOnlyToAccepted ==
    pc = "done" =>
        \A i \in 1..Len(terms) :
            (PlainLiteral(terms[i]) /\ terms[i].original # <<>>) =>
                \A p \in 0..Len(text) :
                    OccursAt(text, terms[i].original, p, terms[i].caseSensitive) =>
                        \E w \in Accepted :
                            Overlap(w, [start |-> p, end |-> p + Len(terms[i].original)])

\* the rules of ts that are literals of the group (cs, whole)
RECURSIVE GroupRules(_, _, _)
GroupRules(ts, cs, whole) ==
    IF ts = <<>> THEN <<>>
    ELSE (IF ~Head(ts).isRegex /\ Head(ts).caseSensitive = cs /\ WholeWord(Head(ts)) = whole
          THEN <<Head(ts)>> ELSE <<>>) \o GroupRules(Tail(ts), cs, whole)

\* the candidates of each pattern rule on its own, in declaration order
RECURSIVE PatternCandidates(_, _)
PatternCandidates(t, ts) ==
    IF ts = <<>> THEN <<>>
    ELSE (IF Head(ts).isRegex
          THEN FindAllMatches(CompiledTerms(<<Head(ts)>>), t) ELSE <<>>)
            \o PatternCandidates(t, Tail(ts))

\* the candidates in the order the claim gives: pattern rules as declared,
\* then the groups case-sensitive partial, case-sensitive whole-word,
\* case-insensitive partial, case-insensitive whole-word
InsertionOrder(t, ts) ==
    PatternCandidates(t, ts)
        \o FindAllMatches(CompiledTerms(GroupRules(ts, TRUE, FALSE)), t)
        \o FindAllMatches(CompiledTerms(GroupRules(ts, TRUE, TRUE)), t)
        \o FindAllMatches(CompiledTerms(GroupRules(ts, FALSE, FALSE)), t)
        \o FindAllMatches(CompiledTerms(GroupRules(ts, FALSE, TRUE)), t)

\* the entries of rs with the span of r, in the order of rs
WithSpanOf(rs, r) ==
    LET Same(x) == x.start = r.start /\ x.end = r.end IN SelectSeq(rs, Same)

\* C23: among candidates with identical start and end the sort keeps the
\* insertion order of the matchers (pattern rules as declared, then the
\* four literal groups in their fixed order), and the accepted one is the
\* first of them.
C23_TieKeepsInsertionOrder ==
    [][ (pc = "collected" /\ pc' = "resolved") =>
            /\ \A i \in 1..Len(replacements) :
                  WithSpanOf(replacements', replacements[i])
                      = WithSpanOf(InsertionOrder(text, terms), replacements[i])
            /\ \A j \in 1..Len(winning') :
                  /\ winning'[j] = Head(WithSpanOf(InsertionOrder(text, terms), winning'[j]))
                  /\ \A k \in 1..Len(winning') :
                        (winning'[k].start = winning'[j].start
                            /\ winning'[k].end = winning'[j].end) => k = j ]_vars

\* a pattern rule and literals of several groups match the same span, and
\* the accepted replacement is that of a rule declared after the others
C23_Witness ==
    /\ pc = "resolved"
    /\ \E i, j, k \in 1..Len(replacements) :
          /\ i < j /\ j < k
          /\ SpanSet({replacements[i], replacements[j], replacements[k]})
                = {<<replacements[i].start, replacements[i].end>>}
          /\ replacements[i].replacement # replacements[j].replacement
          /\ replacements[j].replacement # replacements[k].replacement
          /\ replacements[i] \in Accepted
          /\ replacements[j] \notin Accepted
    /\ \E n \in 2..Len(terms) :
          terms[n].isRegex /\ \E w \in Accepted : w.replacement = terms[n].replacement

\* the positions of the log `started` that are about item i
StartsOf(i) == {k \in 1..Len(started) : started[k][1] = i}

\* the positions of the log `set_calls` that are about item i
SetCallsOf(i) == {k \in 1..Len(set_calls) : set_calls[k].item = i}

RECURSIVE SumCounts(_, _, _)
SumCounts(chs, a, b) ==
    IF a > b THEN 0 ELSE chs[a].count + SumCounts(chs, a + 1, b)

\* the first chapter from start_chapter on that satisfies Stops, or the one
\* after the last chapter
FirstStop(Stops(_)) ==
    LET S == {k \in start_chapter..Len(chapters) : Stops(k)}
    IN  IF S = {} THEN Len(chapters) + 1 ELSE CHOOSE k \in S : \A j \in S : k <= j

\* including chapter k would take the cumulative count above max_count
Exceeds(k) == SumCounts(chapters, start_chapter, k) > max_count

\* the same, or the count has reached max_count before chapter k
ExceedsOrFull(k) ==
    Exceeds(k) \/ SumCounts(chapters, start_chapter, k - 1) >= max_count

\* what extract_chapters_text returns when it includes the chapters before
\* chapter `stop`
ReturnsUpTo(stop) ==
    /\ included_chapters = [i \in 1..(stop - start_chapter) |->
                               IncludedNumber(chapters, start_chapter + i - 1)]
    /\ total_count = SumCounts(chapters, start_chapter, stop - 1)
    /\ total_count <= max_count

\* C25 as stated: the included chapters are those from start_chapter up to,
\* not including, the first whose inclusion would exceed max_count (or up
\* to the last chapter); total_count is their sum and at most max_count.
C25_UpToFirstExceeding ==
    pc = "extract_returned" => ReturnsUpTo(FirstStop(Exceeds))

\* C25 amended: the included chapters are whole and consecutive from
\* start_chapter, up to, not including, the first chapter that would exceed
\* max_count or that comes when the count has already reached max_count;
\* total_count is their sum and at most max_count.
C25_UpToFirstExceedingOrFull ==
    pc = "extract_returned" => ReturnsUpTo(FirstStop(ExceedsOrFull))

\* two chapters were included, their count reached max_count exactly, and
\* the next chapter, which has no words and would fit, was left out
C25_Witness ==
    /\ pc = "extract_returned"
    /\ Len(included_chapters) = 2
    /\ total_count = max_count
    /\ current_chapter = Len(chapters)
    /\ chapters[current_chapter].count = 0

\* C26: the accumulation loop terminates, chapters without words included:
\* a round of the loop either leaves the loop or moves to the next chapter,
\* and every call reaches its return.
C26_LoopTerminates ==
    /\ [][ pc = "extract_loop" =>
              \/ pc' # "extract_loop"
              \/ current_chapter' = current_chapter + 1 ]_vars
    /\ <>(pc = "extract_returned")

\* a call returned after a round that included a chapter without words
\* while the limit was not reached
C26_Witness ==
    /\ pc = "extract_returned"
    /\ max_count > 0
    /\ Len(included_chapters) >= 2
    /\ chapters[start_chapter].count = 0
    /\ chapters[start_chapter + 1].count = 0

\* handle_extraction has just returned to the loop of run()
AfterExtraction ==
    /\ pc = "loop"
    /\ dispatched # <<>>
    /\ dispatched[Len(dispatched)].action = "extract"

\* the messages the handler of lines 120-123 prints
ErrorMessages ==
    { "Error: list index out of range", "Error: Please enter 'y' or 'n'",
      "Error: File must be an EPUB file (.epub)",
      "Error: Chapter number must be a positive integer",
      "Error: Chapter number exceeds available chapters" }

\* the texts copied to the clipboard by the latest call of a handler
CopiedThisRound ==
    {clipboard[k].text : k \in {n \in 1..Len(clipboard) :
                                    clipboard[n].round = Len(dispatched)}}

\* C27: every option the menu shows can be chosen and runs the action its
\* label names, and the loop ends only on the option labelled Exit.
C27_MenuDispatch ==
    /\ pc = "menu" => \A c \in 1..Len(MenuLabels) : c \in MenuChoices
    /\ \A i \in 1..Len(dispatched) :
          dispatched[i].action = MenuLabels[dispatched[i].choice]
    /\ pc = "exited" => MenuLabels[dispatched[Len(dispatched)].choice] = "exit"

\* C28: an answer to the search-replace question that is neither yes nor no
\* skips search-replace: the extracted text is copied to the clipboard as
\* it is, the extraction result is displayed, and no error ends the call.
C28_InvalidAnswerSkips ==
    ( /\ AfterExtraction
      /\ use_search_replace.asked
      /\ validate_yes_no_input(use_search_replace.answer) \notin {"true", "false"} )
    => /\ CopiedThisRound = {text}
       /\ "Extraction Complete!" \in screen
       /\ "Invalid input. Skipping search-replace." \in screen
       /\ screen \cap ErrorMessages = {}

\* C29: the limit the extraction is called with is the setting of the
\* current counting mode: max_tokens in mode 'tokens', max_words in mode
\* 'words', as option 1 of the settings menu last set it.
C29_LimitOfCountingMode ==
    (dispatched # <<>> /\ pc \in {"extract", "extract_loop", "extract_end", "extract_returned"})
    => max_count = config[LimitKey(config.counting_mode)]

\* C30: when no chapter is included, handle_extraction reports 'No text
\* extracted', copies nothing and shows no error.
C30_NothingExtractedReported ==
    (AfterExtraction /\ chapters # <<>> /\ included_chapters = <<>>)
    => /\ "No text extracted. The chapter might be empty or exceed word limits." \in screen
       /\ CopiedThisRound = {}
       /\ screen \cap ErrorMessages = {}

====
